---- MODULE Spec2Model ----
(***************************************************************************)
(* Model of the smpcc runtime core: the Yao garbled-circuit generator      *)
(* (runtime/gc/yao/gen/gen.go), its channel IO (runtime/gc chanio) and the *)
(* commodity-model correlated-randomness service, the secretary and the   *)
(* session start of the chat front end (runtime/gmw/commodity.go).         *)
(*                                                                         *)
(* A Key is KEY_SIZE bytes.  Byte 0 is kept as a number of ByteBits bits   *)
(* (the code reads and writes it: key[0] % 2, key0[0] |= 1, w[0][0] = 0);  *)
(* bytes 1.. are kept as a set of atoms, one fresh atom per GenKey call,   *)
(* XOR being symmetric difference: the output of the cryptographic RNG is  *)
(* a value that no other call produces and that no XOR of other outputs    *)
(* equals.                                                                 *)
(***************************************************************************)
EXTENDS Integers, Sequences, FiniteSets, TLC

VARIABLES
  \* gen.go package globals and the generator's io (one session, one task)
  key0, const0, const1, nkeys,
  Tchan, Kchan, Kchan2, otq,
  sentT, sentK,
  \* the circuit front end: wires returned so far, calls made so far
  pool, prog, gwait, revealed, gpanic,
  \* the evaluator at the other end of the io
  epc, epool, econst, view, recvT, erevealed,
  \* block tasks of one session calling into gen.go concurrently, each on
  \* its own VM: program counters and locals, each VM's Kchan, the wires made
  \* (with the key0 read for them), assignments made to key0 and const0
  tasks, kchans, wlog, nmake, nconst,
  \* the commodity server (one PRG stream per party, requests in flight),
  \* the channel to each party, each party's client state and the batches of
  \* triples its calls returned; plan is the sequence of batches the circuit
  \* of the session makes every party ask for
  numParties, plan, RandomStreams, partyCh, reqs, srvPanic, cli, results,
  \* per party: requests made to the server and receives from its channel
  traffic,
  \* block tasks of the designated party inside triple32 / maskTriple on the
  \* shared CommodityClientState: position in the call and its locals
  btasks,
  \* one generator and one evaluator running the same circuit over a Chanio,
  \* one channel operation at a time: the circuit, each side's position (call
  \* and channel operations done in it), the contents of the channels, and
  \* whether each side has initialised its constants
  cprog, gpos, epos, chans, cinit,
  \* the secretary: the maps rooms, members and starters of its handler, the
  \* requests handled so far, and two logs: the parties that have sent a
  \* StartRequest for each room, and every okStart sent with the members of
  \* the room and the parties that had asked at that moment
  rooms, members, starters, nreq, asked, okStarts,
  \* one party's call of session() in its room: st.Members as the room's
  \* subscription callback last set it (and the number of Members messages
  \* handled), the position in session(), its locals id and numParties,
  \* whether okStart = true was received, the peer IO setup tasks started and
  \* still running, the done signals received, and Handle.Main
  stMembers, nupd, spc, id, snum, okd, setups, running, ndone, main

genVars == <<key0, const0, const1, nkeys, Tchan, Kchan, Kchan2, otq, sentT,
             sentK, pool, prog, gwait, revealed, gpanic>>
evalVars == <<epc, epool, econst, view, recvT, erevealed>>
concVars == <<tasks, kchans, wlog, nmake, nconst>>
comVars == <<numParties, plan, RandomStreams, partyCh, reqs, srvPanic, cli,
             results, traffic>>
batchVars == <<btasks>>
coreVars == <<genVars, evalVars, concVars, comVars, batchVars>>
chanVars == <<cprog, gpos, epos, chans, cinit>>
secVars == <<rooms, members, starters, nreq, asked, okStarts>>
sessVars == <<stMembers, nupd, spc, id, snum, okd, setups, running, ndone, main>>
ctlVars == <<chanVars, secVars, sessVars>>
vars == <<coreVars, ctlVars>>

\* ------------------------------------------------------------ bounds
ByteBits == 1
MaxWires == 4
\* a circuit of c calls on vectors of at most w wires has c + w <= MaxSize
MaxSize == 4
\* calls the generator may be ahead of the evaluator
MaxLag == 1
\* concurrent block tasks
MaxTasks == 2

\* capacity of Tchan, Kchan and Kchan2
ChanCap == 50

ByteVals == 2 ^ ByteBits
Bytes == 0 .. (ByteVals - 1)

\* ------------------------------------------------------------ bits
RECURSIVE BitXor(_, _)
BitXor(x, y) ==
  IF x = 0 THEN y
  ELSE IF y = 0 THEN x
  ELSE ((x + y) % 2) + 2 * BitXor(x \div 2, y \div 2)

RECURSIVE BitAnd(_, _)
BitAnd(x, y) ==
  IF x = 0 \/ y = 0 THEN 0
  ELSE ((x % 2) * (y % 2)) + 2 * BitAnd(x \div 2, y \div 2)

BitOr(x, y) == BitXor(BitXor(x, y), BitAnd(x, y))

\* ------------------------------------------------------------ keys
NilKey == [lo |-> -1, hi |-> {}]
ZeroKey == [lo |-> 0, hi |-> {}]

XorKey(a, b) ==
  [lo |-> BitXor(a.lo, b.lo), hi |-> (a.hi \ b.hi) \cup (b.hi \ a.hi)]

lsb(k) == k.lo % 2

NilWire == <<>>

\* ------------------------------------------------------------ blocks
\* A block is a key-sized plaintext under a stack of cipher layers; the
\* head of layers is the outermost one.
Plain(k) == [layers |-> <<>>, body |-> k]
NilBlock == [layers |-> <<>>, body |-> NilKey]

gcEncrypt(k, p) ==
  IF p.layers # <<>> /\ Head(p.layers) = [dec |-> TRUE, key |-> k]
  THEN [p EXCEPT !.layers = Tail(@)]
  ELSE [p EXCEPT !.layers = <<[dec |-> FALSE, key |-> k]>> \o @]

gcDecrypt(k, c) ==
  IF c.layers # <<>> /\ Head(c.layers) = [dec |-> FALSE, key |-> k]
  THEN [c EXCEPT !.layers = Tail(@)]
  ELSE [c EXCEPT !.layers = <<[dec |-> TRUE, key |-> k]>> \o @]

\* ------------------------------------------------------------ gen.go
RECURSIVE slotFrom(_, _)
slotFrom(keys, result) ==
  IF keys = <<>> THEN result
  ELSE slotFrom(Tail(keys), result * 2 + (Head(keys).lo % 2))

RECURSIVE slot_sum(_)
slot_sum(keys) ==
  IF keys = <<>> THEN 0 ELSE (Head(keys).lo % 2) + slot_sum(Tail(keys))

slot(keys) == slotFrom(keys, 0)

RECURSIVE encrypt_outer_first(_, _)
encrypt_outer_first(keys, result) ==
  IF keys = <<>> THEN result
  ELSE gcEncrypt(Head(keys), encrypt_outer_first(Tail(keys), result))

RECURSIVE encrypt(_, _)
encrypt(keys, result) ==
  IF keys = <<>> THEN result
  ELSE encrypt(Tail(keys), gcEncrypt(Head(keys), result))

RECURSIVE decrypt(_, _)
decrypt(keys, ciphertext) ==
  IF keys = <<>> THEN ciphertext
  ELSE decrypt(SubSeq(keys, 1, Len(keys) - 1),
               gcDecrypt(keys[Len(keys)], ciphertext))

encrypt_slot(t, plaintext, keys) ==
  [t EXCEPT ![slot(keys) + 1] = encrypt(keys, plaintext)]

Decrypt(t, keys) == decrypt(keys, t[slot(keys) + 1])

NewTable(n) == [i \in 1 .. n |-> NilBlock]

\* gpanic while no call of the generator has panicked
NoPanic == ""

\* panic(msg) in a call that has left the session as g
Panic(g, msg) == [g |-> g, out |-> <<>>, panic |-> msg]

\* the message of the panic that ended the call with result r
PanicOf(r) == IF "panic" \in DOMAIN r THEN r.panic ELSE NoPanic

\* The generator's session: the package globals key0, const0, const1, the
\* number n of GenKey calls made so far, the random bytes rnd still to be
\* drawn by this call, and the io channels with the log of what was sent.
GenKeyVal(g) == [lo |-> Head(g.rnd), hi |-> {g.n + 1}]

GenKeyNext(g) == [g EXCEPT !.rnd = Tail(@), !.n = @ + 1]

ForceLsb_keep(k) == k

ForceLsb(k) == [k EXCEPT !.lo = BitOr(@, 1)]

init_key0(g) ==
  IF g.key0 # NilKey THEN g
  ELSE [GenKeyNext(g) EXCEPT !.key0 = ForceLsb(GenKeyVal(g))]

genWire(g) ==
  LET g1 == init_key0(g)
      k0 == GenKeyVal(g1)
      k1 == XorKey(k0, g1.key0)
  IN  [g |-> GenKeyNext(g1), w |-> <<k0, k1>>]

RECURSIVE genWiresLoop(_, _, _, _)
genWiresLoop(g, size, i, res) ==
  IF i > size THEN [g |-> g, out |-> res]
  ELSE LET r == genWire(g)
       IN  genWiresLoop(r.g, size, i + 1, Append(res, r.w))

\* an array of size wires; no method of the generator calls it
genWires(g, size) ==
  IF size <= 0 THEN Panic(g, "genWires with request <= 0")
  ELSE genWiresLoop(g, size, 1, <<>>)

\* ch <- x on a buffered channel; sentT and sentK log the calls
SendT(g, t) == [g EXCEPT !.Tchan = Append(@, t), !.sentT = Append(@, t)]

SendK(g, k) == [g EXCEPT !.Kchan = Append(@, k), !.sentK = Append(@, k)]

Send(g, m0, m1) == [g EXCEPT !.otq = Append(@, <<m0, m1>>)]

ConstKeys_both(c0, c1) == <<c0[1], c0[2]>>

ConstKeys(c0, c1) == <<c0[1], c1[2]>>

InitConstants(g) ==
  LET r0 == genWire(g)
      r1 == genWire(r0.g)
      ks == ConstKeys(r0.w, r1.w)
      g2 == [r1.g EXCEPT !.const0 = r0.w, !.const1 = r1.w]
  IN  SendK(SendK(g2, ks[1]), ks[2])

init_constants_unguarded(g) == InitConstants(g)

init_constants(g) == IF g.const0 # NilWire THEN g ELSE InitConstants(g)

AndTable(w, a, b) ==
  LET t0 == NewTable(4)
      t1 == encrypt_slot(t0, Plain(w[1]), <<a[1], b[1]>>)
      t2 == encrypt_slot(t1, Plain(w[1]), <<a[1], b[2]>>)
      t3 == encrypt_slot(t2, Plain(w[1]), <<a[2], b[1]>>)
  IN  encrypt_slot(t3, Plain(w[2]), <<a[2], b[2]>>)

OrTable(w, a, b) ==
  LET t0 == NewTable(4)
      t1 == encrypt_slot(t0, Plain(w[1]), <<a[1], b[1]>>)
      t2 == encrypt_slot(t1, Plain(w[2]), <<a[1], b[2]>>)
      t3 == encrypt_slot(t2, Plain(w[2]), <<a[2], b[1]>>)
  IN  encrypt_slot(t3, Plain(w[2]), <<a[2], b[2]>>)

RECURSIVE AndLoop(_, _, _, _, _)
AndLoop(g, a, b, i, result) ==
  IF i > Len(a) THEN [g |-> g, out |-> result]
  ELSE LET r == genWire(g)
       IN  AndLoop(SendT(r.g, AndTable(r.w, a[i], b[i])), a, b, i + 1,
                   Append(result, r.w))

\* the table is sent after the loop instead of inside it
vmAnd_send_last(g, a, b) ==
  IF Len(a) # Len(b) THEN Panic(g, "Wire mismatch in gen.And()")
  ELSE LET r == AndLoop(g, a, b, 1, <<>>)
           sent == SubSeq(r.g.sentT, Len(g.sentT) + 1, Len(r.g.sentT))
           last == IF sent = <<>> THEN <<>> ELSE <<sent[Len(sent)]>>
       IN  [r EXCEPT !.g.Tchan = g.Tchan \o last, !.g.sentT = g.sentT \o last]

vmAnd_late_check(g, a, b) ==
  IF Len(a) # Len(b) THEN Panic(genWire(g).g, "Wire mismatch in gen.And()")
  ELSE AndLoop(g, a, b, 1, <<>>)

vmAnd(g, a, b) ==
  IF Len(a) # Len(b) THEN Panic(g, "Wire mismatch in gen.And()")
  ELSE AndLoop(g, a, b, 1, <<>>)

RECURSIVE OrLoop(_, _, _, _, _)
OrLoop(g, a, b, i, result) ==
  IF i > Len(a) THEN [g |-> g, out |-> result]
  ELSE LET r == genWire(g)
       IN  OrLoop(SendT(r.g, OrTable(r.w, a[i], b[i])), a, b, i + 1,
                  Append(result, r.w))

vmOr(g, a, b) ==
  IF Len(a) # Len(b) THEN Panic(g, "Wire mismatch in gen.Or()")
  ELSE OrLoop(g, a, b, 1, <<>>)

XorWire_k1_from_a1(a, b) == <<XorKey(a[1], b[1]), XorKey(a[2], b[2])>>

XorWire(a, b) == <<XorKey(a[1], b[1]), XorKey(a[1], b[2])>>

vmXor(g, a, b) ==
  IF Len(a) # Len(b) THEN Panic(g, "Xor(): mismatch")
  ELSE [g |-> g, out |-> [i \in 1 .. Len(a) |-> XorWire(a[i], b[i])]]

vmTrue(g) == LET g1 == init_constants(g) IN [g |-> g1, out |-> <<g1.const1>>]

vmFalse(g) == LET g1 == init_constants(g) IN [g |-> g1, out |-> <<g1.const0>>]

RevealTable_no_literal(w, a) ==
  encrypt_slot(encrypt_slot(NewTable(2), Plain(w[1]), <<a[1]>>), Plain(w[2]),
               <<a[2]>>)

RevealTable(w, a) ==
  LET w0 == [w[1] EXCEPT !.lo = 0]
      w1 == [w[2] EXCEPT !.lo = 1]
      t1 == encrypt_slot(NewTable(2), Plain(w0), <<a[1]>>)
  IN  encrypt_slot(t1, Plain(w1), <<a[2]>>)

RECURSIVE RevealTo1Loop(_, _, _)
RevealTo1Loop(g, a, i) ==
  IF i > Len(a) THEN g
  ELSE LET r == genWire(g)
       IN  RevealTo1Loop(SendT(r.g, RevealTable(r.w, a[i])), a, i + 1)

vmRevealTo1(g, a) == [g |-> RevealTo1Loop(g, a, 1), out |-> <<>>]

RECURSIVE ShareTo0Loop(_, _, _, _)
ShareTo0Loop(g, bits, i, a) ==
  IF i > bits THEN [g |-> g, out |-> a]
  ELSE LET r == genWire(g)
       IN  ShareTo0Loop(Send(r.g, r.w[1], r.w[2]), bits, i + 1, Append(a, r.w))

vmShareTo0(g, bits) == ShareTo0Loop(g, bits, 1, <<>>)

\* bit i (from 0) of the unsigned value a
BitOf(a, i) == (a \div (2 ^ i)) % 2

ShareTo1Key_swapped(w, bit) == IF bit = 0 THEN w[2] ELSE w[1]

ShareTo1Key(w, bit) == IF bit = 0 THEN w[1] ELSE w[2]

RECURSIVE ShareTo1Loop(_, _, _, _, _)
ShareTo1Loop(g, a, bits, i, result) ==
  IF i > bits THEN [g |-> g, out |-> result]
  ELSE LET r == genWire(g)
       IN  ShareTo1Loop(SendK(r.g, ShareTo1Key(r.w, BitOf(a, i - 1))), a, bits,
                        i + 1, Append(result, r.w))

\* the widest value ShareTo1 accepts
MaxBits == 64

vmShareTo1(g, a, bits) ==
  IF bits > MaxBits THEN Panic(g, "BT: bits > 64")
  ELSE ShareTo1Loop(g, a, bits, 1, <<>>)

RandomPair_ignore_coin(w, coin) == <<w[1], w[2]>>

RandomPair(w, coin) == IF coin = 0 THEN <<w[1], w[2]>> ELSE <<w[2], w[1]>>

RECURSIVE RandomLoop(_, _, _, _)
RandomLoop(g, random, i, result) ==
  IF i > Len(random) THEN [g |-> g, out |-> result]
  ELSE LET r == genWire(g)
           m == RandomPair(r.w, random[i])
       IN  RandomLoop(Send(r.g, m[1], m[2]), random, i + 1, Append(result, r.w))

\* random holds the coins GetBit(random, i) of the bits wires asked for
vmRandom(g, random) ==
  IF Len(random) < 1 THEN Panic(g, "Random: bits < 1")
  ELSE RandomLoop(g, random, 1, <<>>)

resolveKey_default_true(w, k) == IF k = w[1] THEN 0 ELSE 1

\* 0 or 1 for a label of w, -1 for the panic of a key that is neither
resolveKey(w, k) == IF k = w[1] THEN 0 ELSE IF k = w[2] THEN 1 ELSE -1

\* the channel q after n receives
Drop(q, n) == SubSeq(q, n + 1, Len(q))

\* ------------------------------------------------------------ generator
G(rnd) ==
  [key0 |-> key0, const0 |-> const0, const1 |-> const1, n |-> nkeys,
   rnd |-> rnd, Tchan |-> Tchan, Kchan |-> Kchan, otq |-> otq,
   sentT |-> sentT, sentK |-> sentK]

Wires(idx) == [i \in 1 .. Len(idx) |-> pool[idx[i]]]

\* the vectors of n wires the front end passes: n consecutive wires returned
\* so far, as their positions in pool
Vectors(n) ==
  {[i \in 1 .. n |-> s + i - 1] : s \in 1 .. (Len(pool) - n + 1)}

\* random bytes a call draws for n fresh wires
Draws(n) == [1 .. (n + (IF key0 = NilKey THEN 1 ELSE 0)) -> Bytes]

Entry(op, ai, bi, n, v) ==
  [op |-> op, ai |-> ai, bi |-> bi, n |-> n, v |-> v, o |-> Len(pool),
   t0 |-> Len(sentT), k0 |-> Len(sentK)]

RECURSIVE Width(_)
Width(p) ==
  IF p = <<>> THEN 0
  ELSE LET w == Width(Tail(p)) IN IF Head(p).n > w THEN Head(p).n ELSE w

CanCall(n) ==
  /\ ~gwait
  /\ gpanic = NoPanic
  /\ Len(prog) - epc < MaxLag
  /\ Len(prog) + 1 + (IF n > Width(prog) THEN n ELSE Width(prog)) <= MaxSize

Widths == {n \in 1 .. MaxSize : CanCall(n)}

\* the bit counts the front end asks for: the widths and zero
BitCounts == {n \in 0 .. MaxSize : CanCall(n)}

\* a bit count beyond what ShareTo1 accepts
TooManyBits == IF CanCall(0) THEN {MaxBits + 1} ELSE {}

\* the call returns r.out, or panics, with the session left as r.g
Return(r, entry) ==
  /\ Len(r.g.Tchan) <= ChanCap
  /\ Len(r.g.Kchan) <= ChanCap
  /\ Len(pool) + Len(r.out) <= MaxWires
  /\ key0' = r.g.key0
  /\ const0' = r.g.const0
  /\ const1' = r.g.const1
  /\ nkeys' = r.g.n
  /\ Tchan' = r.g.Tchan
  /\ Kchan' = r.g.Kchan
  /\ otq' = r.g.otq
  /\ sentT' = r.g.sentT
  /\ sentK' = r.g.sentK
  /\ pool' = pool \o r.out
  /\ prog' = IF PanicOf(r) = NoPanic THEN Append(prog, entry) ELSE prog
  /\ gpanic' = PanicOf(r)
  /\ UNCHANGED <<Kchan2, gwait, revealed, evalVars, concVars, comVars,
                 batchVars,ctlVars>>

And ==
  /\ \E n \in Widths, m \in Widths :
       \E ai \in Vectors(n), bi \in Vectors(m) :
         \E rnd \in Draws(n) :
           Return(vmAnd(G(rnd), Wires(ai), Wires(bi)),
                  Entry("And", ai, bi, n, <<>>))

Or ==
  /\ \E n \in Widths, m \in Widths :
       \E ai \in Vectors(n), bi \in Vectors(m) :
         \E rnd \in Draws(n) :
           Return(vmOr(G(rnd), Wires(ai), Wires(bi)),
                  Entry("Or", ai, bi, n, <<>>))

Xor ==
  /\ \E n \in Widths, m \in Widths :
       \E ai \in Vectors(n), bi \in Vectors(m) :
         Return(vmXor(G(<<>>), Wires(ai), Wires(bi)),
                Entry("Xor", ai, bi, n, <<>>))

\* random bytes for key0 and the two constant wires, drawn when they are made
ConstDraws == [1 .. (2 + (IF key0 = NilKey THEN 1 ELSE 0)) -> Bytes]

True ==
  /\ CanCall(1)
  /\ \E rnd \in ConstDraws :
       Return(vmTrue(G(rnd)), Entry("True", <<>>, <<>>, 1, <<>>))

False ==
  /\ CanCall(1)
  /\ \E rnd \in ConstDraws :
       Return(vmFalse(G(rnd)), Entry("False", <<>>, <<>>, 1, <<>>))

ShareTo0 ==
  /\ \E bits \in BitCounts :
       \E rnd \in Draws(bits) :
         Return(vmShareTo0(G(rnd), bits), Entry("ShareTo0", <<>>, <<>>, bits, <<>>))

ShareTo1 ==
  /\ \E bits \in BitCounts \cup TooManyBits :
       \E a \in 0 .. (2 ^ (IF bits > MaxBits THEN 0 ELSE bits) - 1) :
         \E rnd \in Draws(IF bits > MaxBits THEN 0 ELSE bits) :
           Return(vmShareTo1(G(rnd), a, bits),
                  Entry("ShareTo1", <<>>, <<>>, bits,
                        [i \in 1 .. bits |-> BitOf(a, i - 1)]))

Random ==
  /\ \E bits \in BitCounts :
       \E random \in [1 .. bits -> {0, 1}] :
         \E rnd \in Draws(bits) :
           Return(vmRandom(G(rnd), random),
                  Entry("Random", <<>>, <<>>, bits, random))

RevealTo1 ==
  /\ \E n \in Widths :
       \E ai \in Vectors(n) :
         \E rnd \in Draws(n) :
           Return(vmRevealTo1(G(rnd), Wires(ai)),
                  Entry("RevealTo1", ai, <<>>, n, <<>>))

\* RevealTo0 blocks in RecvK2 until the evaluator has sent its keys
RevealTo0Call ==
  /\ \E n \in Widths :
       \E ai \in Vectors(n) :
         prog' = Append(prog, Entry("RevealTo0", ai, <<>>, n, <<>>))
  /\ gwait' = TRUE
  /\ UNCHANGED <<key0, const0, const1, nkeys, Tchan, Kchan, Kchan2, otq, sentT,
                 sentK, pool, revealed, gpanic, evalVars, concVars, comVars, batchVars,ctlVars>>

\* RevealTo0 from its first RecvK2 to its return, or to the panic of
\* resolveKey on the first key that is neither label of its wire (the keys
\* after that one are left on the channel)
RevealTo0Return ==
  /\ gwait
  /\ LET e == prog[Len(prog)]
         a == Wires(e.ai)
         bits == [i \in 1 .. e.n |-> resolveKey(a[i], Kchan2[i])]
         bad == {i \in 1 .. e.n : bits[i] = -1}
     IN  /\ Len(Kchan2) >= e.n
         /\ IF bad # {}
            THEN /\ gpanic' = "resolveKey(): key and wire mismatch"
                 /\ revealed' = revealed
                 /\ Kchan2' = Drop(Kchan2, CHOOSE i \in bad : \A j \in bad : i <= j)
            ELSE /\ gpanic' = gpanic
                 /\ revealed' = Append(revealed, bits)
                 /\ Kchan2' = Drop(Kchan2, e.n)
  /\ gwait' = FALSE
  /\ UNCHANGED <<key0, const0, const1, nkeys, Tchan, Kchan, otq, sentT, sentK,
                 pool, prog, evalVars, concVars, comVars, batchVars,ctlVars>>

\* ------------------------------------------------------------ evaluator
\* The evaluator runs the same circuit, one call behind or level with the
\* generator, holding one key per wire (epool is indexed like pool).
BadKey == [lo |-> 0, hi |-> {0}]

KeyOf(block) == IF block.layers = <<>> THEN block.body ELSE BadKey

EvalGate(e) ==
  LET out == [i \in 1 .. e.n |->
                KeyOf(Decrypt(Tchan[i], <<epool[e.ai[i]], epool[e.bi[i]]>>))]
  IN  /\ Tchan' = Drop(Tchan, e.n)
      /\ recvT' = recvT \o SubSeq(Tchan, 1, e.n)
      /\ epool' = epool \o out
      /\ view' = view \cup {out[i] : i \in 1 .. e.n}
      /\ UNCHANGED <<Kchan, Kchan2, otq, econst, erevealed>>

EvalXor(e) ==
  /\ epool' = epool \o [i \in 1 .. e.n |-> XorKey(epool[e.ai[i]], epool[e.bi[i]])]
  /\ UNCHANGED <<Tchan, Kchan, Kchan2, otq, econst, view, recvT, erevealed>>

EvalConst(e) ==
  LET fresh == econst = <<>>
      c == IF fresh THEN <<Kchan[1], Kchan[2]>> ELSE econst
  IN  /\ econst' = c
      /\ Kchan' = IF fresh THEN Drop(Kchan, 2) ELSE Kchan
      /\ view' = IF fresh THEN view \cup {c[1], c[2]} ELSE view
      /\ epool' = Append(epool, IF e.op = "True" THEN c[2] ELSE c[1])
      /\ UNCHANGED <<Tchan, Kchan2, otq, recvT, erevealed>>

\* Receive(s): the receiver obtains m_s of the next pair offered
EvalOT(e) ==
  \E s \in [1 .. e.n -> {0, 1}] :
    LET out == [i \in 1 .. e.n |-> otq[i][s[i] + 1]]
    IN  /\ otq' = Drop(otq, e.n)
        /\ epool' = epool \o out
        /\ view' = view \cup {out[i] : i \in 1 .. e.n}
        /\ UNCHANGED <<Tchan, Kchan, Kchan2, econst, recvT, erevealed>>

EvalShareTo1(e) ==
  /\ Kchan' = Drop(Kchan, e.n)
  /\ epool' = epool \o SubSeq(Kchan, 1, e.n)
  /\ view' = view \cup {Kchan[i] : i \in 1 .. e.n}
  /\ UNCHANGED <<Tchan, Kchan2, otq, econst, recvT, erevealed>>

EvalRevealTo0(e) ==
  /\ Len(Kchan2) + e.n <= ChanCap
  /\ Kchan2' = Kchan2 \o [i \in 1 .. e.n |-> epool[e.ai[i]]]
  /\ UNCHANGED <<Tchan, Kchan, otq, epool, econst, view, recvT, erevealed>>

EvalRevealTo1(e) ==
  LET out == [i \in 1 .. e.n |-> KeyOf(Decrypt(Tchan[i], <<epool[e.ai[i]]>>))]
  IN  /\ Tchan' = Drop(Tchan, e.n)
      /\ recvT' = recvT \o SubSeq(Tchan, 1, e.n)
      /\ view' = view \cup {out[i] : i \in 1 .. e.n}
      /\ erevealed' = Append(erevealed, [i \in 1 .. e.n |-> out[i].lo])
      /\ UNCHANGED <<Kchan, Kchan2, otq, epool, econst>>

Eval ==
  /\ epc < Len(prog)
  /\ gpanic = NoPanic
  /\ epc' = epc + 1
  /\ LET e == prog[epc + 1]
     IN  CASE e.op \in {"And", "Or"} -> EvalGate(e)
           [] e.op = "Xor" -> EvalXor(e)
           [] e.op \in {"True", "False"} -> EvalConst(e)
           [] e.op \in {"ShareTo0", "Random"} -> EvalOT(e)
           [] e.op = "ShareTo1" -> EvalShareTo1(e)
           [] e.op = "RevealTo0" -> EvalRevealTo0(e)
           [] e.op = "RevealTo1" -> EvalRevealTo1(e)
  /\ UNCHANGED <<key0, const0, const1, nkeys, sentT, sentK, pool, prog, gwait,
                 revealed, gpanic, concVars, comVars, batchVars,ctlVars>>

\* a peer that violates the protocol: one of the reply keys the generator is
\* waiting for is a key that is no label
EvalBadReply ==
  /\ gwait
  /\ \A i \in 1 .. Len(Kchan2) : Kchan2[i] # BadKey
  /\ \E i \in 1 .. Len(Kchan2) : Kchan2' = [Kchan2 EXCEPT ![i] = BadKey]
  /\ UNCHANGED <<key0, const0, const1, nkeys, Tchan, Kchan, otq, sentT, sentK,
                 pool, prog, gwait, revealed, gpanic, evalVars, concVars,
                 comVars, batchVars,ctlVars>>


\* ------------------------------------------------------------ block tasks
\* Each task makes one call on its own VM: genWire (as every gate and share
\* call does), True or False.  A step is one statement of init_key0, genWire
\* or init_constants; gc.GenKey and key0[0] |= 1 are taken as one step each.
TaskIds == 1 .. MaxTasks

IdleTask == [pc |-> "idle", op |-> "none", stage |-> 0, k0 |-> NilKey, ret |-> NilWire]

Goto(t, pc) == tasks' = [tasks EXCEPT ![t].pc = pc]

sharedVars == <<Tchan, Kchan, Kchan2, otq, sentT, sentK, pool, prog, gwait,
                revealed, gpanic, evalVars, comVars, batchVars,ctlVars>>

\* the call begins: genWire, or init_constants for True and False
TaskStart(t) ==
  /\ tasks[t].pc = "idle"
  /\ \E op \in {"genWire", "True", "False"} :
       tasks' = [tasks EXCEPT ![t].op = op,
                              ![t].pc = IF op = "genWire" THEN "init_key0"
                                        ELSE "init_constants"]
  /\ UNCHANGED <<key0, const0, const1, nkeys, kchans, wlog, nmake, nconst, sharedVars>>

\* if const0 == nil
InitConstCheck(t) ==
  /\ tasks[t].pc = "init_constants"
  /\ tasks' = [tasks EXCEPT ![t].pc = IF const0 = NilWire THEN "init_key0" ELSE "return",
                            ![t].stage = IF const0 = NilWire THEN 1 ELSE 0]
  /\ UNCHANGED <<key0, const0, const1, nkeys, kchans, wlog, nmake, nconst, sharedVars>>

\* if key0 != nil { return }
InitKey0Check(t) ==
  /\ tasks[t].pc = "init_key0"
  /\ Goto(t, IF key0 # NilKey THEN "genkey_k0" ELSE "make_key0")
  /\ UNCHANGED <<key0, const0, const1, nkeys, kchans, wlog, nmake, nconst, sharedVars>>

\* key0 = make([]byte, KEY_SIZE)
Key0Make(t) ==
  /\ tasks[t].pc = "make_key0"
  /\ key0' = ZeroKey
  /\ nmake' = nmake + 1
  /\ Goto(t, "genkey_key0")
  /\ UNCHANGED <<const0, const1, nkeys, kchans, wlog, nconst, sharedVars>>

\* gc.GenKey(key0)
Key0GenKey(t) ==
  /\ tasks[t].pc = "genkey_key0"
  /\ \E r \in Bytes : key0' = [lo |-> r, hi |-> {nkeys + 1}]
  /\ nkeys' = nkeys + 1
  /\ Goto(t, "force_lsb")
  /\ UNCHANGED <<const0, const1, kchans, wlog, nmake, nconst, sharedVars>>

\* key0[0] |= 1
Key0ForceLsb(t) ==
  /\ tasks[t].pc = "force_lsb"
  /\ key0' = ForceLsb(key0)
  /\ Goto(t, "genkey_k0")
  /\ UNCHANGED <<const0, const1, nkeys, kchans, wlog, nmake, nconst, sharedVars>>

\* k0 := make([]byte, KEY_SIZE); gc.GenKey(k0)
GenWireKey(t) ==
  /\ tasks[t].pc = "genkey_k0"
  /\ \E r \in Bytes :
       tasks' = [tasks EXCEPT ![t].k0 = [lo |-> r, hi |-> {nkeys + 1}],
                              ![t].pc = "xor_key0"]
  /\ nkeys' = nkeys + 1
  /\ UNCHANGED <<key0, const0, const1, kchans, wlog, nmake, nconst, sharedVars>>

\* k1 := gc.XorKey(k0, key0); return; the caller stores the wire
GenWireXor(t) ==
  /\ tasks[t].pc = "xor_key0"
  /\ LET w == <<tasks[t].k0, XorKey(tasks[t].k0, key0)>>
         st == tasks[t].stage
     IN  /\ wlog' = Append(wlog, [task |-> t, w |-> w, key0 |-> key0])
         /\ const0' = IF st = 1 THEN w ELSE const0
         /\ const1' = IF st = 2 THEN w ELSE const1
         /\ nconst' = IF st = 1 THEN nconst + 1 ELSE nconst
         /\ tasks' = [tasks EXCEPT
                        ![t].pc = CASE st = 0 -> "done"
                                    [] st = 1 -> "init_key0"
                                    [] st = 2 -> "send_const0",
                        ![t].stage = IF st = 1 THEN 2 ELSE st,
                        ![t].ret = IF st = 0 THEN w ELSE @]
  /\ UNCHANGED <<key0, nkeys, kchans, nmake, sharedVars>>

\* io.SendK(const0[0])
ConstSend0(t) ==
  /\ tasks[t].pc = "send_const0"
  /\ kchans' = [kchans EXCEPT ![t] = Append(@, const0[1])]
  /\ Goto(t, "send_const1")
  /\ UNCHANGED <<key0, const0, const1, nkeys, wlog, nmake, nconst, sharedVars>>

\* io.SendK(const1[1])
ConstSend1(t) ==
  /\ tasks[t].pc = "send_const1"
  /\ kchans' = [kchans EXCEPT ![t] = Append(@, const1[2])]
  /\ Goto(t, "return")
  /\ UNCHANGED <<key0, const0, const1, nkeys, wlog, nmake, nconst, sharedVars>>

\* return []gc.Wire{const1} (True), []gc.Wire{const0} (False)
TaskReturn(t) ==
  /\ tasks[t].pc = "return"
  /\ tasks' = [tasks EXCEPT ![t].pc = "done",
                            ![t].ret = IF tasks[t].op = "True" THEN const1 ELSE const0]
  /\ UNCHANGED <<key0, const0, const1, nkeys, kchans, wlog, nmake, nconst, sharedVars>>

NextConc ==
  \/ \E t \in TaskIds : TaskStart(t)
  \/ \E t \in TaskIds : InitConstCheck(t)
  \/ \E t \in TaskIds : InitKey0Check(t)
  \/ \E t \in TaskIds : Key0Make(t)
  \/ \E t \in TaskIds : Key0GenKey(t)
  \/ \E t \in TaskIds : Key0ForceLsb(t)
  \/ \E t \in TaskIds : GenWireKey(t)
  \/ \E t \in TaskIds : GenWireXor(t)
  \/ \E t \in TaskIds : ConstSend0(t)
  \/ \E t \in TaskIds : ConstSend1(t)
  \/ \E t \in TaskIds : TaskReturn(t)

\* ------------------------------------------------------------ commodity
\* parties of a session
MaxParties == 3
\* values a seed is drawn from
SeedSpace == 2
\* batches of triples a circuit asks for
MaxBatches == 2
\* triples in one triple32 batch
NUM_TRIPLES == 2
\* mask triples in one batch: the sizes at and just above each byte boundary
MaxMaskN == 16
\* bytes in the B and C of a mask triple
MaxBytesTriple == 2

SeedVals == 0 .. (SeedSpace - 1)
MaskSizes == {n \in 1 .. MaxMaskN : n % 8 <= 1}

\* make([]byte, n)
Zeros(n) == [k \in 1 .. n |-> 0]

\* byte i of the keystream of ot.NewPRG(seed): a fixed function of the seed
PRGByte(seed, i) ==
  ((seed + 1) * 101 + (i + 1) * (2 * seed + 7) * 45 + i * i * 13) % 256

\* cipher.Stream.XORKeyStream(buf, buf) on the stream of seed at offset pos
XORKeyStream(seed, pos, buf) ==
  [k \in 1 .. Len(buf) |-> BitXor(buf[k], PRGByte(seed, pos + k - 1))]

XorBytes(x, y) == [k \in 1 .. Len(x) |-> BitXor(x[k], y[k])]

AndBytes(x, y) == [k \in 1 .. Len(x) |-> BitAnd(x[k], y[k])]

\* bit.GetBit(A, j), j counted from 0: -1 when A[j/8] is out of range
GetBit(A, j) ==
  IF (j \div 8) + 1 > Len(A) THEN -1
  ELSE (A[(j \div 8) + 1] \div (2 ^ (j % 8))) % 2

\* combine(w): the 32-bit word of four bytes, kept as its two 16-bit halves
\* <<low, high>>
combine(w) == <<w[1] + 256 * w[2], w[3] + 256 * w[4]>>

\* one stream's share of a batch: a, then b, then c
StreamDraw(s, a, b, c) ==
  [a |-> XORKeyStream(s.seed, s.pos, a),
   b |-> XORKeyStream(s.seed, s.pos + Len(a), b),
   c |-> XORKeyStream(s.seed, s.pos + Len(a) + Len(b), c),
   s |-> [s EXCEPT !.pos = @ + Len(a) + Len(b) + Len(c)]]

\* for _, v := range s.RandomStreams: the XOR of all parties' shares
RECURSIVE DrawAll(_, _, _, _, _)
DrawAll(st, v, a, b, c) ==
  IF v > Len(st) THEN [a |-> a, b |-> b, c |-> c, st |-> st]
  ELSE LET d == StreamDraw(st[v], a, b, c)
       IN DrawAll([st EXCEPT ![v] = d.s], v + 1, d.a, d.b, d.c)

TripleCorrectionBytes_no_c(a, b, c) == AndBytes(a, b)

\* desired = (c XOR correction) so correction = (desired XOR c)
TripleCorrectionBytes(a, b, c) == XorBytes(AndBytes(a, b), c)

MaskCorrectionBytes_swapped(A, B, C, L) ==
  [k \in 1 .. Len(C) |->
     IF GetBit(A, (k - 1) \div L) = 1 THEN C[k] ELSE BitXor(B[k], C[k])]

\* the loop over j of MaskTripleCorrection, byte k lying in triple (k-1)/L
MaskCorrectionBytes(A, B, C, L) ==
  [k \in 1 .. Len(C) |->
     IF GetBit(A, (k - 1) \div L) = 1 THEN BitXor(B[k], C[k]) ELSE C[k]]

\* GetBit(A, j) indexes past the end of A for some j < numTriples
BitsOutOfRange(A, n) == \E j \in 0 .. (n - 1) : GetBit(A, j) = -1

\* the result loop of triple32
Triples(a, b, c) ==
  [t \in 1 .. NUM_TRIPLES |->
     [a |-> combine(SubSeq(a, 4 * t - 3, 4 * t)),
      b |-> combine(SubSeq(b, 4 * t - 3, 4 * t)),
      c |-> combine(SubSeq(c, 4 * t - 3, 4 * t))]]

\* the result loop of maskTriple
MaskTriples(a, b, c, n, L) ==
  [j \in 1 .. n |->
     [a |-> GetBit(a, j - 1),
      B |-> SubSeq(b, (j - 1) * L + 1, j * L),
      C |-> SubSeq(c, (j - 1) * L + 1, j * L)]]

\* the batches a circuit can ask for, and the circuits
Batches ==
  {[kind |-> "triple32", n |-> NUM_TRIPLES, L |-> 4]} \cup
  {[kind |-> "mask", n |-> n, L |-> l] : n \in MaskSizes, l \in 1 .. MaxBytesTriple}

Plans == UNION {[1 .. k -> Batches] : k \in 1 .. MaxBatches}

Parties == 1 .. numParties

NewClient ==
  [init |-> FALSE, seed |-> 0, pos |-> 0, ch |-> TRUE, pc |-> "idle",
   a |-> <<>>, b |-> <<>>, c |-> <<>>]

\* the batch party i asks for next
NextBatch(i) == plan[Len(results[i]) + 1]

CanBatch(i, kind) ==
  /\ cli[i].init
  /\ cli[i].pc = "idle"
  /\ Len(results[i]) < Len(plan)
  /\ NextBatch(i).kind = kind

HasCorrectionCh_never(i) == FALSE

HasCorrectionCh_always(i) == TRUE

\* s.CorrectionCh != nil at party i
HasCorrectionCh(i) == cli[i].ch

\* NewCommodityServerState(partyCh) for len(partyCh) = n >= 1, with
\* NewCommodityClientState(partyCh[i], requester) at every party i and the
\* circuit p the parties will run
NewCommodityServerState ==
  /\ numParties = 0
  /\ \E n \in 1 .. MaxParties, p \in Plans :
       \E sd \in [1 .. n -> SeedVals] :
         /\ numParties' = n
         /\ plan' = p
         /\ RandomStreams' = [i \in 1 .. n |-> [seed |-> sd[i], pos |-> 0]]
         /\ partyCh' = [i \in 1 .. n |-> <<sd[i]>>]
         /\ cli' = [i \in 1 .. n |-> NewClient]
         /\ results' = [i \in 1 .. n |-> <<>>]
         /\ traffic' = [i \in 1 .. n |-> [req |-> 0, recv |-> 0]]
  /\ UNCHANGED <<reqs, srvPanic, genVars, evalVars, concVars, batchVars,ctlVars>>

\* the server answers the oldest request for a triple correction
TripleCorrection ==
  /\ ~srvPanic
  /\ reqs # <<>>
  /\ Head(reqs).kind = "triple32"
  /\ LET numBytes == NUM_TRIPLES * 4
         d == DrawAll(RandomStreams, 1, Zeros(numBytes), Zeros(numBytes),
                      Zeros(numBytes))
     IN /\ RandomStreams' = d.st
        /\ partyCh' = [partyCh EXCEPT
                         ![1] = Append(@, TripleCorrectionBytes(d.a, d.b, d.c))]
  /\ reqs' = Tail(reqs)
  /\ UNCHANGED <<numParties, plan, srvPanic, cli, results, traffic, genVars,
                 evalVars, concVars, batchVars,ctlVars>>

\* the server answers the oldest request for a mask triple correction
MaskTripleCorrection ==
  /\ ~srvPanic
  /\ reqs # <<>>
  /\ Head(reqs).kind = "mask"
  /\ LET numTriples == Head(reqs).n
         numBytesTriple == Head(reqs).L
         d == DrawAll(RandomStreams, 1, Zeros(numTriples \div 8),
                      Zeros(numTriples * numBytesTriple),
                      Zeros(numTriples * numBytesTriple))
     IN /\ RandomStreams' = d.st
        /\ IF BitsOutOfRange(d.a, numTriples)
           THEN /\ srvPanic' = TRUE
                /\ UNCHANGED partyCh
           ELSE /\ partyCh' = [partyCh EXCEPT
                                 ![1] = Append(@, MaskCorrectionBytes(d.a, d.b,
                                                    d.c, numBytesTriple))]
                /\ UNCHANGED srvPanic
  /\ reqs' = Tail(reqs)
  /\ UNCHANGED <<numParties, plan, cli, results, traffic, genVars, evalVars,
                 concVars, batchVars,ctlVars>>

\* InitCommodityClientState(s, distinguished) at party i; the first party is
\* the distinguished one
InitCommodityClientState(i) ==
  /\ ~cli[i].init
  /\ partyCh[i] # <<>>
  /\ cli' = [cli EXCEPT ![i] = [@ EXCEPT !.init = TRUE,
                                         !.seed = Head(partyCh[i]),
                                         !.ch = (i = 1)]]
  /\ partyCh' = [partyCh EXCEPT ![i] = Tail(@)]
  /\ traffic' = [traffic EXCEPT ![i].recv = @ + 1]
  /\ UNCHANGED <<numParties, plan, RandomStreams, reqs, srvPanic, results,
                 genVars, evalVars, concVars, batchVars,ctlVars>>

ClientDraw_restart(i, la, lb) ==
  StreamDraw([seed |-> cli[i].seed, pos |-> 0], Zeros(la), Zeros(lb),
             Zeros(lb))

\* party i draws its share of the next batch from its stream
ClientDraw(i, la, lb) ==
  StreamDraw([seed |-> cli[i].seed, pos |-> cli[i].pos], Zeros(la), Zeros(lb),
             Zeros(lb))

\* triple32 at party i, up to the read of the correction channel (to the end
\* when CorrectionCh is nil)
triple32(i) ==
  /\ CanBatch(i, "triple32")
  /\ LET d == ClientDraw(i, NUM_TRIPLES * 4, NUM_TRIPLES * 4)
     IN IF HasCorrectionCh(i)
        THEN /\ reqs' = Append(reqs, [from |-> i, kind |-> "triple32",
                                      n |-> NUM_TRIPLES, L |-> 4])
             /\ cli' = [cli EXCEPT ![i] = [@ EXCEPT !.pos = d.s.pos,
                                                    !.pc = "wait", !.a = d.a,
                                                    !.b = d.b, !.c = d.c]]
             /\ traffic' = [traffic EXCEPT ![i].req = @ + 1]
             /\ UNCHANGED results
        ELSE /\ cli' = [cli EXCEPT ![i].pos = d.s.pos]
             /\ results' = [results EXCEPT
                              ![i] = Append(@, Triples(d.a, d.b, d.c))]
             /\ UNCHANGED <<reqs, traffic>>
  /\ UNCHANGED <<numParties, plan, RandomStreams, partyCh, srvPanic, genVars,
                 evalVars, concVars, batchVars,ctlVars>>

\* triple32 at party i from correction := <-s.CorrectionCh to the return
triple32Correction(i) ==
  /\ cli[i].pc = "wait"
  /\ NextBatch(i).kind = "triple32"
  /\ partyCh[i] # <<>>
  /\ LET c == XorBytes(cli[i].c, Head(partyCh[i]))
     IN results' = [results EXCEPT
                      ![i] = Append(@, Triples(cli[i].a, cli[i].b, c))]
  /\ partyCh' = [partyCh EXCEPT ![i] = Tail(@)]
  /\ traffic' = [traffic EXCEPT ![i].recv = @ + 1]
  /\ cli' = [cli EXCEPT ![i] = [@ EXCEPT !.pc = "idle", !.a = <<>>,
                                         !.b = <<>>, !.c = <<>>]]
  /\ UNCHANGED <<numParties, plan, RandomStreams, reqs, srvPanic, genVars,
                 evalVars, concVars, batchVars,ctlVars>>

\* maskTriple(numTriples, numBytesTriple) at party i, up to the read of the
\* correction channel (to the end when CorrectionCh is nil)
maskTriple(i) ==
  /\ CanBatch(i, "mask")
  /\ LET numTriples == NextBatch(i).n
         numBytesTriple == NextBatch(i).L
         d == ClientDraw(i, numTriples \div 8, numTriples * numBytesTriple)
     IN IF HasCorrectionCh(i)
        THEN /\ reqs' = Append(reqs, [from |-> i, kind |-> "mask",
                                      n |-> numTriples, L |-> numBytesTriple])
             /\ cli' = [cli EXCEPT ![i] = [@ EXCEPT !.pos = d.s.pos,
                                                    !.pc = "wait", !.a = d.a,
                                                    !.b = d.b, !.c = d.c]]
             /\ traffic' = [traffic EXCEPT ![i].req = @ + 1]
             /\ UNCHANGED results
        ELSE /\ UNCHANGED <<reqs, traffic>>
             /\ IF BitsOutOfRange(d.a, numTriples)
                THEN /\ cli' = [cli EXCEPT ![i] = [@ EXCEPT !.pos = d.s.pos,
                                                            !.pc = "panic"]]
                     /\ UNCHANGED results
                ELSE /\ cli' = [cli EXCEPT ![i].pos = d.s.pos]
                     /\ results' = [results EXCEPT
                                      ![i] = Append(@, MaskTriples(d.a, d.b,
                                               d.c, numTriples, numBytesTriple))]
  /\ UNCHANGED <<numParties, plan, RandomStreams, partyCh, srvPanic, genVars,
                 evalVars, concVars, batchVars,ctlVars>>

\* maskTriple at party i from correction := <-s.CorrectionCh to the return
maskTripleCorrection(i) ==
  /\ cli[i].pc = "wait"
  /\ NextBatch(i).kind = "mask"
  /\ partyCh[i] # <<>>
  /\ LET c == XorBytes(cli[i].c, Head(partyCh[i]))
     IN IF BitsOutOfRange(cli[i].a, NextBatch(i).n)
        THEN /\ cli' = [cli EXCEPT ![i].pc = "panic"]
             /\ UNCHANGED results
        ELSE /\ cli' = [cli EXCEPT ![i] = [@ EXCEPT !.pc = "idle", !.a = <<>>,
                                                    !.b = <<>>, !.c = <<>>]]
             /\ results' = [results EXCEPT
                              ![i] = Append(@, MaskTriples(cli[i].a, cli[i].b,
                                       c, NextBatch(i).n, NextBatch(i).L))]
  /\ partyCh' = [partyCh EXCEPT ![i] = Tail(@)]
  /\ traffic' = [traffic EXCEPT ![i].recv = @ + 1]
  /\ UNCHANGED <<numParties, plan, RandomStreams, reqs, srvPanic, genVars,
                 evalVars, concVars, batchVars,ctlVars>>

NextCommodity ==
  \/ NewCommodityServerState
  \/ TripleCorrection
  \/ MaskTripleCorrection
  \/ \E i \in Parties : InitCommodityClientState(i)
  \/ \E i \in Parties : triple32(i)
  \/ \E i \in Parties : triple32Correction(i)
  \/ \E i \in Parties : maskTriple(i)
  \/ \E i \in Parties : maskTripleCorrection(i)

\* ------------------------------------------------------------ block tasks
\* Block task t of the designated (first) party makes call plan[t] on the
\* party's one CommodityClientState; the statements of triple32 / maskTriple
\* of different tasks interleave.
\* parties of the sessions in which block tasks are followed
MaxBlockParties == 1

BlockIds == 1 .. Len(plan)

\* locals of a call: the buffers, the stream offsets they were drawn at, the
\* number of the request it made and of the correction it read
IdleBlock ==
  [pc |-> "idle", a |-> <<>>, b |-> <<>>, c |-> <<>>, oa |-> -1, ob |-> -1,
   oc |-> -1, rq |-> 0, rc |-> 0]

\* bytes of the a and of the b (and c) buffer of call plan[t]
LenA(t) ==
  IF plan[t].kind = "triple32" THEN NUM_TRIPLES * 4 ELSE plan[t].n \div 8

LenB(t) ==
  IF plan[t].kind = "triple32" THEN NUM_TRIPLES * 4 ELSE plan[t].n * plan[t].L

\* s.RandomStream.XORKeyStream(buf, buf) on the shared stream
SharedDraw(len) == XORKeyStream(cli[1].seed, cli[1].pos, Zeros(len))

BlockUnchanged ==
  UNCHANGED <<numParties, plan, RandomStreams, srvPanic, results, genVars,
              evalVars, concVars, ctlVars>>

\* a := make(...); b := ...; c := ...; s.RandomStream.XORKeyStream(a, a)
BlockDrawA(t) ==
  /\ cli[1].init
  /\ btasks[t].pc = "idle"
  /\ btasks' = [btasks EXCEPT ![t] = [@ EXCEPT !.pc = "b", !.oa = cli[1].pos,
                                               !.a = SharedDraw(LenA(t))]]
  /\ cli' = [cli EXCEPT ![1].pos = @ + LenA(t)]
  /\ UNCHANGED <<partyCh, reqs, traffic>>
  /\ BlockUnchanged

\* s.RandomStream.XORKeyStream(b, b)
BlockDrawB(t) ==
  /\ btasks[t].pc = "b"
  /\ btasks' = [btasks EXCEPT ![t] = [@ EXCEPT !.pc = "c", !.ob = cli[1].pos,
                                               !.b = SharedDraw(LenB(t))]]
  /\ cli' = [cli EXCEPT ![1].pos = @ + LenB(t)]
  /\ UNCHANGED <<partyCh, reqs, traffic>>
  /\ BlockUnchanged

\* s.RandomStream.XORKeyStream(c, c)
BlockDrawC(t) ==
  /\ btasks[t].pc = "c"
  /\ btasks' = [btasks EXCEPT ![t] = [@ EXCEPT !.pc = "request",
                                               !.oc = cli[1].pos,
                                               !.c = SharedDraw(LenB(t))]]
  /\ cli' = [cli EXCEPT ![1].pos = @ + LenB(t)]
  /\ UNCHANGED <<partyCh, reqs, traffic>>
  /\ BlockUnchanged

\* if s.CorrectionCh != nil { s.Requester.Request...Correction(...)
BlockRequest(t) ==
  /\ btasks[t].pc = "request"
  /\ HasCorrectionCh(1)
  /\ reqs' = Append(reqs, [from |-> 1, kind |-> plan[t].kind, n |-> plan[t].n,
                           L |-> plan[t].L])
  /\ traffic' = [traffic EXCEPT ![1].req = @ + 1]
  /\ btasks' = [btasks EXCEPT ![t] = [@ EXCEPT !.pc = "wait",
                                               !.rq = traffic[1].req + 1]]
  /\ UNCHANGED <<partyCh, cli>>
  /\ BlockUnchanged

\* correction := <-s.CorrectionCh; c = ot.XorBytes(c, correction), the call
\* aborting when the two differ in length
BlockCorrection(t) ==
  /\ btasks[t].pc = "wait"
  /\ partyCh[1] # <<>>
  /\ partyCh' = [partyCh EXCEPT ![1] = Tail(@)]
  /\ traffic' = [traffic EXCEPT ![1].recv = @ + 1]
  /\ IF Len(Head(partyCh[1])) # Len(btasks[t].c)
     THEN btasks' = [btasks EXCEPT ![t] = [@ EXCEPT !.pc = "panic",
                                                    !.rc = traffic[1].recv]]
     ELSE btasks' = [btasks EXCEPT ![t] =
                       [@ EXCEPT !.pc = "done", !.rc = traffic[1].recv,
                                 !.c = XorBytes(@, Head(partyCh[1]))]]
  /\ UNCHANGED <<reqs, cli>>
  /\ BlockUnchanged

NextBlocks ==
  \/ NewCommodityServerState
  \/ \E i \in Parties \cap {1} :
       numParties <= MaxBlockParties /\ InitCommodityClientState(i)
  \/ TripleCorrection
  \/ MaskTripleCorrection
  \/ \E t \in BlockIds : BlockDrawA(t)
  \/ \E t \in BlockIds : BlockDrawB(t)
  \/ \E t \in BlockIds : BlockDrawC(t)
  \/ \E t \in BlockIds : BlockRequest(t)
  \/ \E t \in BlockIds : BlockCorrection(t)

\* ------------------------------------------------------------ secretary
\* The handler the secretary subscribes to "secretary.>", one action per kind
\* of message.  members[room] and starters[room] are Go maps from Party to
\* bool, kept as functions; a room without a map is not in the domain.

\* rooms, parties and requests of a run
MaxRooms == 2
MaxRoomParties == 3
MaxRequests == 5

RoomNames == 1 .. MaxRooms
PartyNames == 1 .. MaxRoomParties

\* make(map[string](map[Party]bool))
NoMaps == <<>>

\* make(map[Party]bool)
EmptyMap == <<>>

\* m[k] = v
Put(m, k, v) == [x \in DOMAIN m \cup {k} |-> IF x = k THEN v ELSE m[x]]

\* delete(m, k)
Delete(m, k) == [x \in DOMAIN m \ {k} |-> m[x]]

\* if !rooms[room] { rooms[room] = true }, at the head of every message
Heard(room) ==
  /\ nreq < MaxRequests
  /\ nreq' = nreq + 1
  /\ rooms' = rooms \cup {room}

\* the members of room at this moment
MembersOf(room) == IF room \in DOMAIN members THEN DOMAIN members[room] ELSE {}

\* starters[room], made on the first StartRequest for the room: every
\* member of that moment, false
StartersOf(room) ==
  IF room \in DOMAIN starters THEN starters[room]
  ELSE [k \in DOMAIN members[room] |-> FALSE]

StartRequest(room, party) ==
  /\ Heard(room)
  /\ asked' = [asked EXCEPT ![room] = @ \cup {party}]
  /\ IF room \notin DOMAIN members
     THEN UNCHANGED <<starters, okStarts>>
     ELSE LET st == Put(StartersOf(room), party, TRUE)
          IN  /\ starters' = Put(starters, room, st)
              /\ okStarts' = IF \A k \in DOMAIN st : st[k]
                             THEN Append(okStarts,
                                         [room |-> room,
                                          members |-> MembersOf(room),
                                          asked |-> asked'[room]])
                             ELSE okStarts
  /\ UNCHANGED <<members, coreVars, chanVars, sessVars>>

LeaveRequest(room, party) ==
  /\ Heard(room)
  /\ members' = IF room \in DOMAIN members
                THEN Put(members, room, Delete(members[room], party))
                ELSE members
  /\ UNCHANGED <<starters, asked, okStarts, coreVars, chanVars, sessVars>>

JoinRequest(room, party) ==
  /\ Heard(room)
  /\ members' = Put(members, room,
                    Put(IF room \in DOMAIN members THEN members[room] ELSE EmptyMap,
                        party, TRUE))
  /\ UNCHANGED <<starters, asked, okStarts, coreVars, chanVars, sessVars>>

\* case Message: logged only
ChatMessage(room) ==
  /\ Heard(room)
  /\ UNCHANGED <<members, starters, asked, okStarts, coreVars, chanVars, sessVars>>

NextSecretary ==
  \/ \E room \in RoomNames : ChatMessage(room)
  \/ \E room \in RoomNames, party \in PartyNames : StartRequest(room, party)
  \/ \E room \in RoomNames, party \in PartyNames : LeaveRequest(room, party)
  \/ \E room \in RoomNames, party \in PartyNames : JoinRequest(room, party)

\* ------------------------------------------------------------ session()
\* One party, MyParty, has joined a room and calls session() from its
\* terminal task.  The room's subscription callback runs in a task of its
\* own and assigns st.Members on every Members message, without a lock: it
\* may do so between any two statements of session().

\* Members messages handled during a run
MaxUpdates == 2

MyParty == 1

\* the lists a Members message can carry: the members after a join, in the
\* order the secretary's map iteration produced
MemberLists ==
  UNION {{l \in [1 .. k -> PartyNames] : \A i, j \in 1 .. k : i # j => l[i] # l[j]} :
           k \in 1 .. MaxRoomParties}

\* the loop over st.Members: the index (from 0) of party, -1 when absent
IndexOf(list, party) ==
  IF \E i \in 1 .. Len(list) : list[i] = party
  THEN (CHOOSE i \in 1 .. Len(list) : list[i] = party) - 1
  ELSE -1

\* the peers the loops over p visit: every p below the number n of parties
\* but the party's own index
Peers(n, self) == {p \in 0 .. (n - 1) : p # self}

SessUnchanged == UNCHANGED <<coreVars, chanVars, secVars>>

\* case Members: st.Members = r.Parties
MembersMsg ==
  /\ nupd < MaxUpdates
  /\ nupd' = nupd + 1
  /\ stMembers' \in MemberLists
  /\ UNCHANGED <<spc, id, snum, okd, setups, running, ndone, main>>
  /\ SessUnchanged

\* "run": session() is entered
SessionCall ==
  /\ spc = "idle"
  /\ spc' = "lookup"
  /\ UNCHANGED <<stMembers, nupd, id, snum, okd, setups, running, ndone, main>>
  /\ SessUnchanged

\* for i, v := range st.Members ...; if id == -1 { panic }
SessionLookup ==
  /\ spc = "lookup"
  /\ id' = IndexOf(stMembers, MyParty)
  /\ spc' = IF id' = -1 THEN "panic" ELSE "count"
  /\ UNCHANGED <<stMembers, nupd, snum, okd, setups, running, ndone, main>>
  /\ SessUnchanged

\* numParties := len(st.Members), the peer IO and its channels, and the
\* StartRequest to the secretary
SessionRequest ==
  /\ spc = "count"
  /\ snum' = Len(stMembers)
  /\ spc' = "okStart"
  /\ UNCHANGED <<stMembers, nupd, id, okd, setups, running, ndone, main>>
  /\ SessUnchanged

\* if !(<-okStart) { panic }, then one setup task per peer is started
SessionOkStart ==
  /\ spc = "okStart"
  /\ \E ok \in BOOLEAN :
       /\ okd' = ok
       /\ spc' = IF ok THEN "done" ELSE "panic"
       /\ setups' = IF ok THEN Cardinality(Peers(snum, id)) ELSE setups
       /\ running' = setups'
  /\ UNCHANGED <<stMembers, nupd, id, snum, ndone, main>>
  /\ SessUnchanged

\* a setup task ends with done <- true, received by one <-done of the loop
SessionDone ==
  /\ spc = "done"
  /\ ndone < Cardinality(Peers(snum, id))
  /\ running > 0
  /\ running' = running - 1
  /\ ndone' = ndone + 1
  /\ UNCHANGED <<stMembers, nupd, spc, id, snum, okd, setups, main>>
  /\ SessUnchanged

\* the loop over p has received its signals: go Handle.Main(...)
SessionMain ==
  /\ spc = "done"
  /\ ndone = Cardinality(Peers(snum, id))
  /\ main' = "running"
  /\ spc' = "Handle.Done"
  /\ UNCHANGED <<stMembers, nupd, id, snum, okd, setups, running, ndone>>
  /\ SessUnchanged

\* the circuit ends and signals Handle.Done
MainDone ==
  /\ main = "running"
  /\ main' = "done"
  /\ UNCHANGED <<stMembers, nupd, spc, id, snum, okd, setups, running, ndone>>
  /\ SessUnchanged

\* <-Handle.Done, and session() returns
SessionReturn ==
  /\ spc = "Handle.Done"
  /\ main = "done"
  /\ spc' = "returned"
  /\ UNCHANGED <<stMembers, nupd, id, snum, okd, setups, running, ndone, main>>
  /\ SessUnchanged

NextSession ==
  \/ MembersMsg
  \/ SessionCall
  \/ SessionLookup
  \/ SessionRequest
  \/ SessionOkStart
  \/ SessionDone
  \/ SessionMain
  \/ MainDone
  \/ SessionReturn

\* ------------------------------------------------------------ channel steps
\* The generator and the evaluator run the same circuit, each as its own
\* task, and meet only in the channels of the Chanio.  A step is one channel
\* operation (SendT, SendK, RecvK2, Send on one side; RecvT, RecvK, SendK2,
\* Receive on the other), which blocks while the channel is full or empty.
\* A message is kept as its tag <<call, number in the call>>.

\* calls in a circuit
MaxCalls == 2
\* how far beyond the capacity of a channel a vector may reach
MaxOver == 1

\* capacity of the channels of the oblivious transfer
OtCap == 100

ChanWidths == {1, ChanCap + MaxOver}

Calls ==
  {[op |-> op, n |-> n] :
     op \in {"And", "Or", "Xor", "ShareTo0", "ShareTo1", "Random", "RevealTo0",
             "RevealTo1"},
     n \in ChanWidths}
    \cup {[op |-> op, n |-> 1] : op \in {"True", "False"}}

Circuits == UNION {[1 .. k -> Calls] : k \in 1 .. MaxCalls}

StartPos == [op |-> 1, i |-> 0]

NewChanio == [T |-> <<>>, K |-> <<>>, K2 |-> <<>>, OT |-> <<>>]

Cap(ch) == IF ch = "OT" THEN OtCap ELSE ChanCap

\* ch <- x proceeds while the buffer has room
CanSend_unbounded(ch) == TRUE

CanSend(ch) == Len(chans[ch]) < Cap(ch)

\* <-ch proceeds while the buffer holds a message
CanRecv(ch) == chans[ch] # <<>>

\* the channel a call works on: tables for And, Or and RevealTo1, keys for
\* ShareTo1 and the constants, reply keys for RevealTo0, the oblivious
\* transfer for ShareTo0 and Random
ChanOf(op) ==
  CASE op \in {"And", "Or", "RevealTo1"} -> "T"
    [] op \in {"ShareTo1", "True", "False"} -> "K"
    [] op = "RevealTo0" -> "K2"
    [] op \in {"ShareTo0", "Random"} -> "OT"
    [] OTHER -> "none"

\* the channel operations of call c: one per wire, none for Xor, the two
\* representative keys for the first True or False
Count(c, inited) ==
  CASE c.op = "Xor" -> 0
    [] c.op \in {"True", "False"} -> IF inited THEN 0 ELSE 2
    [] OTHER -> c.n

\* the position after one more channel operation of a call of total operations
Advance(pos, total) ==
  IF pos.i + 1 >= total THEN [op |-> pos.op + 1, i |-> 0]
  ELSE [pos EXCEPT !.i = @ + 1]

\* the circuit both sides were compiled from
NewCircuit ==
  /\ cprog = <<>>
  /\ cprog' \in Circuits
  /\ UNCHANGED <<gpos, epos, chans, cinit, coreVars, secVars, sessVars>>

\* the generator's next channel operation, or its return from a call that
\* has none left
GenStep ==
  /\ gpos.op <= Len(cprog)
  /\ LET c == cprog[gpos.op]
         ch == ChanOf(c.op)
         total == Count(c, cinit.gen)
     IN  /\ IF total = 0 THEN chans' = chans
            ELSE IF ch = "K2"
            THEN /\ CanRecv(ch)
                 /\ chans' = [chans EXCEPT ![ch] = Tail(@)]
            ELSE /\ CanSend(ch)
                 /\ chans' = [chans EXCEPT ![ch] = Append(@, <<gpos.op, gpos.i + 1>>)]
         /\ gpos' = Advance(gpos, total)
         /\ cinit' = IF c.op \in {"True", "False"} /\ gpos'.op > gpos.op
                     THEN [cinit EXCEPT !.gen = TRUE] ELSE cinit
  /\ UNCHANGED <<cprog, epos, coreVars, secVars, sessVars>>

\* the evaluator's next channel operation, or its return
EvalStep ==
  /\ epos.op <= Len(cprog)
  /\ LET c == cprog[epos.op]
         ch == ChanOf(c.op)
         total == Count(c, cinit.eval)
     IN  /\ IF total = 0 THEN chans' = chans
            ELSE IF ch = "K2"
            THEN /\ CanSend(ch)
                 /\ chans' = [chans EXCEPT ![ch] = Append(@, <<epos.op, epos.i + 1>>)]
            ELSE /\ CanRecv(ch)
                 /\ chans' = [chans EXCEPT ![ch] = Tail(@)]
         /\ epos' = Advance(epos, total)
         /\ cinit' = IF c.op \in {"True", "False"} /\ epos'.op > epos.op
                     THEN [cinit EXCEPT !.eval = TRUE] ELSE cinit
  /\ UNCHANGED <<cprog, gpos, coreVars, secVars, sessVars>>

NextChan ==
  \/ NewCircuit
  \/ GenStep
  \/ EvalStep

\* ------------------------------------------------------------ session
Init ==
  /\ key0 = NilKey
  /\ const0 = NilWire
  /\ const1 = NilWire
  /\ nkeys = 0
  /\ Tchan = <<>>
  /\ Kchan = <<>>
  /\ Kchan2 = <<>>
  /\ otq = <<>>
  /\ sentT = <<>>
  /\ sentK = <<>>
  /\ pool = <<>>
  /\ prog = <<>>
  /\ gwait = FALSE
  /\ revealed = <<>>
  /\ gpanic = NoPanic
  /\ epc = 0
  /\ epool = <<>>
  /\ econst = <<>>
  /\ view = {}
  /\ recvT = <<>>
  /\ erevealed = <<>>
  /\ tasks = [t \in TaskIds |-> IdleTask]
  /\ kchans = [t \in TaskIds |-> <<>>]
  /\ wlog = <<>>
  /\ nmake = 0
  /\ nconst = 0
  /\ numParties = 0
  /\ plan = <<>>
  /\ RandomStreams = <<>>
  /\ partyCh = <<>>
  /\ reqs = <<>>
  /\ srvPanic = FALSE
  /\ cli = <<>>
  /\ results = <<>>
  /\ traffic = <<>>
  /\ btasks = [t \in 1 .. MaxBatches |-> IdleBlock]
  /\ cprog = <<>>
  /\ gpos = StartPos
  /\ epos = StartPos
  /\ chans = NewChanio
  /\ cinit = [gen |-> FALSE, eval |-> FALSE]
  /\ rooms = {}
  /\ members = NoMaps
  /\ starters = NoMaps
  /\ nreq = 0
  /\ asked = [room \in RoomNames |-> {}]
  /\ okStarts = <<>>
  /\ stMembers = <<>>
  /\ nupd = 0
  /\ spc = "idle"
  /\ id = -1
  /\ snum = 0
  /\ okd = FALSE
  /\ setups = 0
  /\ running = 0
  /\ ndone = 0
  /\ main = "no"

Next ==
  \/ And
  \/ Or
  \/ Xor
  \/ True
  \/ False
  \/ ShareTo0
  \/ ShareTo1
  \/ Random
  \/ RevealTo1
  \/ RevealTo0Call
  \/ RevealTo0Return
  \/ Eval
  \/ EvalBadReply

Spec == Init /\ [][Next]_vars

SpecConc == Init /\ [][NextConc]_vars

SpecCommodity == Init /\ [][NextCommodity]_vars

SpecBlocks == Init /\ [][NextBlocks]_vars

SpecSecretary == Init /\ [][NextSecretary]_vars

SpecSession == Init /\ [][NextSession]_vars

SpecChan == Init /\ [][NextChan]_vars

\* each side is a goroutine of its own, scheduled fairly
SpecChanFair == SpecChan /\ WF_vars(GenStep) /\ WF_vars(EvalStep)

\* ------------------------------------------------------------ claims
Gates == {j \in 1 .. Len(prog) : prog[j].op \in {"And", "Or"}}

Truth(op, x, y) == IF op = "And" THEN x * y ELSE (x + y) - (x * y)

\* the tables sent during call j
TabEnd(j) == IF j < Len(prog) THEN prog[j + 1].t0 ELSE Len(sentT)
Tabs(j) == SubSeq(sentT, prog[j].t0 + 1, TabEnd(j))

\* the wires call j returned (Return appends them to pool)
OutWire(j, i) == pool[prog[j].o + i]

\* C1: every wire the generator has returned has k1 = k0 XOR key0 for the
\* one key0 of the session, and the low bit of key0 is 1.
C1_FreeXor ==
  \A i \in 1 .. Len(pool) :
    /\ key0 # NilKey
    /\ lsb(key0) = 1
    /\ pool[i][2] = XorKey(pool[i][1], key0)

C1_Witness ==
  /\ Len(prog) = 3
  /\ prog[2].op \in {"And", "Or"}
  /\ prog[3].op = "Xor"
  /\ prog[3].ai = <<2>>
  /\ Len(pool) = 3

\* C2: for every And and Or gate sent and all x, y, Decrypt of the sent
\* table under labels a[x], b[y] is the output label w[x AND y] (w[x OR y]);
\* the four rows occupy four distinct slots and no slot stays empty.
C2_GateTable ==
  \A j \in Gates : \A i \in 1 .. prog[j].n :
    LET a == pool[prog[j].ai[i]]
        b == pool[prog[j].bi[i]]
        w == OutWire(j, i)
        t == Tabs(j)[i]
    IN  /\ \A x \in {0, 1}, y \in {0, 1} :
             Decrypt(t, <<a[x + 1], b[y + 1]>>)
               = Plain(w[Truth(prog[j].op, x, y) + 1])
        /\ Cardinality({slot(<<a[x + 1], b[y + 1]>>) : x \in {0, 1}, y \in {0, 1}})
             = 4
        /\ \A s \in 1 .. 4 : t[s] # NilBlock

C2_Witness ==
  /\ Len(prog) = 3
  /\ prog[2].op = "And"
  /\ prog[3].op = "Or"
  /\ prog[3].ai = <<2>>
  /\ Len(sentT) = 2

\* C3 as stated: the row of (ka, kb, kw) is Encrypt(ka, Encrypt(kb, kw)) in
\* slot lsb(ka) || lsb(kb).
C3_Original ==
  \A j \in Gates : \A i \in 1 .. prog[j].n :
    \A x \in {0, 1}, y \in {0, 1} :
      LET ka == pool[prog[j].ai[i]][x + 1]
          kb == pool[prog[j].bi[i]][y + 1]
          kw == OutWire(j, i)[Truth(prog[j].op, x, y) + 1]
      IN  Tabs(j)[i][2 * lsb(ka) + lsb(kb) + 1]
            = gcEncrypt(ka, gcEncrypt(kb, Plain(kw)))

\* C3 amended: the row of (ka, kb, kw) is Encrypt(kb, Encrypt(ka, kw)): the
\* inner encryption is under the first input's key, the outer one under the
\* second input's key; it is stored in slot lsb(ka) || lsb(kb).
C3_Layering ==
  \A j \in Gates : \A i \in 1 .. prog[j].n :
    \A x \in {0, 1}, y \in {0, 1} :
      LET ka == pool[prog[j].ai[i]][x + 1]
          kb == pool[prog[j].bi[i]][y + 1]
          kw == OutWire(j, i)[Truth(prog[j].op, x, y) + 1]
      IN  Tabs(j)[i][2 * lsb(ka) + lsb(kb) + 1]
            = gcEncrypt(kb, gcEncrypt(ka, Plain(kw)))

C3_Witness ==
  /\ Len(prog) = 2
  /\ prog[2].op = "Or"
  /\ prog[2].ai = <<1>>
  /\ prog[2].bi = <<2>>
  /\ Len(sentT) = 1

\* C4: the tables sent are, call by call in program order and bit by bit in
\* ascending order, one 4-slot table per bit of And and Or and one 2-slot
\* table per bit of RevealTo1, and none for any other call; RecvT hands them
\* to the evaluator in that order.
C4_TableOrder ==
  /\ \A j \in 1 .. Len(prog) :
       LET e == prog[j]
       IN  IF e.op \in {"And", "Or"}
           THEN /\ Len(Tabs(j)) = e.n
                /\ \A i \in 1 .. e.n :
                     /\ Len(Tabs(j)[i]) = 4
                     /\ Decrypt(Tabs(j)[i], <<pool[e.ai[i]][1], pool[e.bi[i]][1]>>)
                          \in {Plain(OutWire(j, i)[1]), Plain(OutWire(j, i)[2])}
           ELSE IF e.op = "RevealTo1"
           THEN /\ Len(Tabs(j)) = e.n
                /\ \A i \in 1 .. e.n :
                     /\ Len(Tabs(j)[i]) = 2
                     /\ Decrypt(Tabs(j)[i], <<pool[e.ai[i]][1]>>).layers = <<>>
           ELSE Tabs(j) = <<>>
  /\ (prog = <<>> => sentT = <<>>)
  /\ recvT \o Tchan = sentT

C4_Witness ==
  /\ Len(prog) = 2
  /\ prog[2].op = "And"
  /\ prog[2].n = 2
  /\ prog[2].ai = <<1, 2>>
  /\ Len(sentT) = 2
  /\ recvT = sentT

\* C5: what the evaluator obtains (keys from Kchan, the chosen message of
\* each OT, the block of the one row it can open in each table, and the keys
\* it computes for Xor wires) never holds both labels of a returned wire,
\* never holds key0, and no XOR of keys it holds is key0; the keys sent on
\* Kchan never hold key0 or both labels of a wire.
Held == view \cup {epool[i] : i \in 1 .. Len(epool)}

RECURSIVE XorAll(_)
XorAll(S) ==
  IF S = {} THEN ZeroKey
  ELSE LET k == CHOOSE x \in S : TRUE IN XorKey(k, XorAll(S \ {k}))

C5_OneLabel ==
  /\ \A i \in 1 .. Len(pool) : ~(pool[i][1] \in Held /\ pool[i][2] \in Held)
  /\ \A S \in SUBSET Held : XorAll(S) # key0
  /\ \A k \in 1 .. Len(sentK) : sentK[k] # key0
  /\ \A i \in 1 .. Len(pool) :
       ~(\E k, l \in 1 .. Len(sentK) : sentK[k] = pool[i][1] /\ sentK[l] = pool[i][2])

C5_Witness ==
  /\ epc = 3
  /\ prog[1].op = "True"
  /\ prog[2].op = "ShareTo0"
  /\ prog[3].op = "And"
  /\ prog[3].ai = <<1>>
  /\ prog[3].bi = <<2>>
  /\ Cardinality(Held) = 4

\* C7: const0[0] and then const1[1] are sent on Kchan once each, by the
\* first True or False call and before it returns; every True call returns
\* const1 and every False call returns const0.
Consts == {j \in 1 .. Len(prog) : prog[j].op \in {"True", "False"}}

C7_ConstOnce ==
  /\ (Consts = {}) = (const0 = NilWire)
  /\ (Consts = {}) = (const1 = NilWire)
  /\ \A j \in Consts :
       /\ OutWire(j, 1) = IF prog[j].op = "True" THEN const1 ELSE const0
       /\ IF \A i \in Consts : j <= i
          THEN /\ Len(sentK) >= prog[j].k0 + 2
               /\ sentK[prog[j].k0 + 1] = const0[1]
               /\ sentK[prog[j].k0 + 2] = const1[2]
          ELSE (IF j < Len(prog) THEN prog[j + 1].k0 ELSE Len(sentK)) = prog[j].k0
       /\ Cardinality({k \in 1 .. Len(sentK) : sentK[k] = const0[1]}) = 1
       /\ Cardinality({k \in 1 .. Len(sentK) : sentK[k] = const1[2]}) = 1

C7_Witness ==
  /\ Len(prog) = 3
  /\ prog[1].op = "True"
  /\ prog[2].op = "False"
  /\ prog[3].op = "True"
  /\ pool = <<const1, const0, const1>>

\* C6: under concurrent tasks key0 is assigned once, and every wire any
\* task makes uses the same, fully initialised key0 with low bit 1.
C6_Key0Once ==
  /\ nmake <= 1
  /\ \A i \in 1 .. Len(wlog) :
       /\ wlog[i].key0 # ZeroKey
       /\ lsb(wlog[i].key0) = 1
       /\ wlog[i].key0 = wlog[1].key0

\* C8: under concurrent True and False calls on VMs with their own io,
\* const0 and const1 are assigned once, no call returns a nil constant, the
\* two keys are sent once in total, and the Kchan of every VM that returned a
\* constant holds that constant's key.
ConstCallers == {t \in TaskIds : tasks[t].op \in {"True", "False"} /\ tasks[t].pc = "done"}

\* the keys on all Kchans, as (VM, position)
KeysSent == {x \in TaskIds \X (1 .. 2 * MaxTasks) : x[2] <= Len(kchans[x[1]])}

C8_ConstOnce ==
  /\ nconst <= 1
  /\ \A t \in ConstCallers :
       /\ tasks[t].ret # NilWire
       /\ Cardinality(KeysSent) = 2
       /\ \E i \in 1 .. Len(kchans[t]) :
            kchans[t][i] = IF tasks[t].op = "True" THEN const1[2] ELSE const0[1]

\* ------------------------------------------------------------ triples
\* every party has been returned its k-th batch
Done(k) == numParties > 0 /\ \A i \in Parties : Len(results[i]) >= k

\* bytes of its stream a party uses for one batch
BatchBytes(b) ==
  IF b.kind = "triple32" THEN 3 * 4 * NUM_TRIPLES
  ELSE (b.n \div 8) + 2 * b.n * b.L

\* offset in the stream of the first byte of the k-th batch
RECURSIVE Offset(_)
Offset(k) == IF k <= 1 THEN 0 ELSE Offset(k - 1) + BatchBytes(plan[k - 1])

\* the k-th batch as party i's PRG gives it, with no correction applied
RawShare(i, k) ==
  LET la == IF plan[k].kind = "triple32" THEN 4 * NUM_TRIPLES
            ELSE plan[k].n \div 8
      lb == IF plan[k].kind = "triple32" THEN 4 * NUM_TRIPLES
            ELSE plan[k].n * plan[k].L
      d == StreamDraw([seed |-> cli[i].seed, pos |-> Offset(k)], Zeros(la),
                      Zeros(lb), Zeros(lb))
  IN IF plan[k].kind = "triple32" THEN Triples(d.a, d.b, d.c)
     ELSE MaskTriples(d.a, d.b, d.c, plan[k].n, plan[k].L)

WordXor(x, y) == <<BitXor(x[1], y[1]), BitXor(x[2], y[2])>>
WordAnd(x, y) == <<BitAnd(x[1], y[1]), BitAnd(x[2], y[2])>>

\* XOR over the parties 1 .. n of the words f[i]
RECURSIVE XorWords(_, _)
XorWords(f, n) == IF n = 0 THEN <<0, 0>> ELSE WordXor(f[n], XorWords(f, n - 1))

\* XOR over the parties 1 .. n of the bits or bytes f[i]
RECURSIVE XorInts(_, _)
XorInts(f, n) == IF n = 0 THEN 0 ELSE BitXor(f[n], XorInts(f, n - 1))

\* XOR over the parties 1 .. n of the byte strings f[i] of length len
RECURSIVE XorStrings(_, _, _)
XorStrings(f, n, len) ==
  IF n = 0 THEN Zeros(len) ELSE XorBytes(f[n], XorStrings(f, n - 1, len))

TripleBatches == {k \in 1 .. Len(plan) : plan[k].kind = "triple32" /\ Done(k)}

\* the XOR over all parties of component f of triple t of batch k
TripleSum(k, t, f) ==
  XorWords([i \in Parties |-> results[i][k][t][f]], numParties)

\* C9: in every triple32 batch that all parties (any number N >= 1 of them)
\* have completed, for each of the NUM_TRIPLES triples the XOR over all parties
\* of the shares satisfies c = a AND b bitwise; every party but the first holds
\* exactly what its PRG gave it, and the first party's a and b are its PRG's
C9_TripleCorrect ==
  \A k \in TripleBatches :
    /\ \A t \in 1 .. NUM_TRIPLES :
         TripleSum(k, t, "c") = WordAnd(TripleSum(k, t, "a"), TripleSum(k, t, "b"))
    /\ \A i \in Parties : i # 1 => results[i][k] = RawShare(i, k)
    /\ \A t \in 1 .. NUM_TRIPLES :
         /\ results[1][k][t].a = RawShare(1, k)[t].a
         /\ results[1][k][t].b = RawShare(1, k)[t].b

\* three parties completed a triple32 batch that came second in the circuit,
\* the correction changed the first party's c and the product is not zero
C9_Witness ==
  /\ numParties = 3
  /\ 2 \in TripleBatches
  /\ results[1][2][1].c # RawShare(1, 2)[1].c
  /\ TripleSum(2, 1, "c") # <<0, 0>>
  /\ TripleSum(2, 2, "c") # <<0, 0>>

MaskBatches ==
  {k \in 1 .. Len(plan) : plan[k].kind = "mask" /\ plan[k].n % 8 = 0 /\ Done(k)}

MaskBit(k, j) == XorInts([i \in Parties |-> results[i][k][j].a], numParties)

MaskSum(k, j, f) ==
  XorStrings([i \in Parties |-> results[i][k][j][f]], numParties, plan[k].L)

\* C10: in every batch of numTriples mask triples of numBytesTriple bytes
\* (numTriples a positive multiple of 8) that all parties have completed, for
\* every triple j the XOR over all parties of the shares satisfies C_j = B_j
\* if a_j = 1 and C_j = all-zero if a_j = 0
C10_MaskCorrect ==
  \A k \in MaskBatches :
    \A j \in 1 .. plan[k].n :
      MaskSum(k, j, "C") = IF MaskBit(k, j) = 1 THEN MaskSum(k, j, "B")
                           ELSE Zeros(plan[k].L)

\* three parties completed a batch of 16 two-byte mask triples that came
\* second in the circuit; it has a triple with a = 1 and B not zero in its
\* second byte of bits, and a triple with a = 0
C10_Witness ==
  /\ numParties = 3
  /\ 2 \in MaskBatches
  /\ plan[2].n = 16
  /\ plan[2].L = 2
  /\ \E j \in 9 .. 16 : MaskBit(2, j) = 1 /\ MaskSum(2, j, "C") # Zeros(2)
  /\ \E j \in 1 .. 16 : MaskBit(2, j) = 0 /\ MaskSum(2, j, "B") # Zeros(2)

\* ------------------------------------------------------------ alignment
\* triple32 / maskTriple calls in which party i has drawn from its stream
Drawn(i) ==
  Len(results[i]) + (IF cli[i].pc \in {"wait", "panic"} THEN 1 ELSE 0)

\* TripleCorrection / MaskTripleCorrection calls the server has made: one per
\* request of the first party that is no longer in flight
ServerCalls == Drawn(1) - Len(reqs)

\* C11: after setup every initialised client holds the seed of the server's
\* stream for it; the client's stream is at the offset of the calls it made,
\* the server's copy at the offset of the corrections it made, so after the
\* same sequence of calls the two are at the same offset, and the k-th batch
\* of every party but the first is the bytes of the stream at the offset of
\* the k-th batch
C11_Aligned ==
  \A i \in Parties :
    cli[i].init =>
      /\ RandomStreams[i].seed = cli[i].seed
      /\ cli[i].pos = Offset(Drawn(i) + 1)
      /\ RandomStreams[i].pos = Offset(ServerCalls + 1)
      /\ (Drawn(i) = ServerCalls => cli[i].pos = RandomStreams[i].pos)
      /\ \A k \in 1 .. Len(results[i]) : i # 1 => results[i][k] = RawShare(i, k)

\* three parties have each made two calls of different kinds, the server has
\* made the two corrections, and the streams have advanced past both batches
C11_Witness ==
  /\ numParties = 3
  /\ Len(plan) = 2
  /\ plan[1].kind = "mask"
  /\ plan[2].kind = "triple32"
  /\ ServerCalls = 2
  /\ \A i \in Parties : Len(results[i]) = 2 /\ cli[i].pos = RandomStreams[i].pos
  /\ RandomStreams[3].pos = Offset(3)
  /\ Offset(3) > Offset(2)

\* ------------------------------------------------------------ requests
\* the channel of a party other than the first holds its seed until
\* InitCommodityClientState reads it and nothing afterwards
SeedOnly(i) ==
  /\ traffic[i].recv = (IF cli[i].init THEN 1 ELSE 0)
  /\ Len(partyCh[i]) = (IF cli[i].init THEN 0 ELSE 1)

\* C12 as stated: every client, designated or not, has made exactly one request
\* for every triple32 or maskTriple call it has begun, and every client but
\* the first has received only its seed
C12_Original ==
  \A i \in Parties :
    /\ traffic[i].req = Drawn(i)
    /\ i # 1 => SeedOnly(i)

\* C12: the designated (first) client has made exactly one request for every
\* triple32 or maskTriple call it has begun and the other clients have made
\* none; only the first client's channel ever carries a correction, every
\* other client has received only its seed
C12_Discipline ==
  \A i \in Parties :
    /\ traffic[i].req = (IF i = 1 THEN Drawn(i) ELSE 0)
    /\ i # 1 => SeedOnly(i)
    /\ \A k \in 1 .. Len(reqs) : reqs[k].from = 1
    /\ (i = 1 /\ cli[i].init /\ cli[i].pc # "panic") =>
         traffic[i].recv = 1 + Len(results[i])

\* three parties have completed two batches: two requests by the first party,
\* both answered and read, none by the others
C12_Witness ==
  /\ numParties = 3
  /\ \A i \in Parties : Len(results[i]) = 2
  /\ traffic[1] = [req |-> 2, recv |-> 3]
  /\ traffic[2] = [req |-> 0, recv |-> 1]
  /\ traffic[3] = [req |-> 0, recv |-> 1]

\* ------------------------------------------------------------ serialisation
\* C13: with several block tasks of the designated party inside triple32 and
\* maskTriple on the shared client state, at most one correction request of
\* the party is outstanding at a time, each task's a, b and c come from one
\* contiguous region of the stream, and each correction read is the one its
\* own request caused (the k-th request is answered by the k-th correction)
C13_Serialised ==
  /\ Cardinality({t \in BlockIds : btasks[t].pc = "wait"}) <= 1
  /\ \A t \in BlockIds :
       /\ btasks[t].ob >= 0 => btasks[t].ob = btasks[t].oa + LenA(t)
       /\ btasks[t].oc >= 0 => btasks[t].oc = btasks[t].ob + LenB(t)
       /\ btasks[t].rc > 0 => btasks[t].rc = btasks[t].rq

\* ------------------------------------------------------------ blocking
\* the designated client is inside a call, waiting on an empty channel
Blocked == numParties > 0 /\ cli[1].pc = "wait" /\ partyCh[1] = <<>>

\* the designated client has made one request per call begun and has read one
\* correction per batch returned; no other client is ever waiting
OnePerCall ==
  \A i \in Parties :
    /\ i = 1 => traffic[i].req = Drawn(i)
    /\ (i = 1 /\ cli[i].init) => Len(results[i]) <= traffic[i].recv - 1
    /\ i # 1 => cli[i].pc # "wait"

\* a step taken while the designated client is blocked leaves it in the call
\* with no triples returned and no further request made
StaysBlocked ==
  Blocked => /\ cli'[1] = cli[1]
             /\ results'[1] = results[1]
             /\ traffic'[1] = traffic[1]

\* a batch is returned to the designated client only in a step that reads a
\* correction from its channel
ReturnsOnCorrection ==
  (numParties > 0 /\ Len(results'[1]) > Len(results[1])) =>
    /\ traffic'[1].recv = traffic[1].recv + 1
    /\ partyCh'[1] = Tail(partyCh[1])

\* C14: a triple32 or maskTriple call of the designated client makes its
\* request exactly once, returns triples only on reading a correction, and
\* while no correction arrives stays blocked without requesting again; a call
\* of any other client never blocks
C14_NoProgress ==
  /\ []OnePerCall
  /\ [][StaysBlocked /\ ReturnsOnCorrection]_vars

\* the server consumed the request and aborted without answering: the
\* designated client is blocked for good with its one request made, while the
\* second party went on
C14_Witness ==
  /\ Blocked
  /\ numParties >= 2
  /\ srvPanic
  /\ reqs = <<>>
  /\ traffic[1].req = 1
  /\ results[1] = <<>>
  /\ cli[2].pc # "wait"
  /\ Drawn(2) >= 1

\* ------------------------------------------------------------ reveal
\* the step in which a RevealTo0 call ends
RevealTo0Ends == gwait /\ ~gwait'

\* C15: a RevealTo0 call on n wires of which every reply key is a label of
\* its wire takes exactly the first n keys off the reply channel and returns,
\* for wire i, false when the i-th key is a[i].k0 and true when it is
\* a[i].k1; a call that receives a key that is neither label panics and
\* returns no result
C15_Resolve ==
  [][RevealTo0Ends =>
       LET e == prog[Len(prog)]
           a == Wires(e.ai)
           labels == \A i \in 1 .. e.n : Kchan2[i] \in {a[i][1], a[i][2]}
       IN  IF labels
           THEN /\ gpanic' = NoPanic
                /\ Kchan2' = SubSeq(Kchan2, e.n + 1, Len(Kchan2))
                /\ Len(revealed') = Len(revealed) + 1
                /\ Len(revealed'[Len(revealed')]) = e.n
                /\ \A i \in 1 .. e.n :
                     revealed'[Len(revealed')][i] =
                       (IF Kchan2[i] = a[i][1] THEN 0 ELSE 1)
           ELSE /\ gpanic' = "resolveKey(): key and wire mismatch"
                /\ revealed' = revealed]_vars

\* one RevealTo0 call returned true for a wire, a later one panicked on a key
\* that is no label
C15_Witness ==
  /\ gpanic = "resolveKey(): key and wire mismatch"
  /\ Len(revealed) = 1
  /\ revealed[1] = <<1>>
  /\ prog[Len(prog)].op = "RevealTo0"

\* ------------------------------------------------------------ reveal table
Reveals == {j \in 1 .. Len(prog) : prog[j].op = "RevealTo1"}

\* the block the table of bit i of RevealTo1 call j gives under the label of
\* logical value v of the revealed wire
Revealed(j, i, v) ==
  KeyOf(Decrypt(Tabs(j)[i], <<pool[prog[j].ai[i]][v + 1]>>))

\* every key the generator has returned in a wire, sent or offered
KeysOut ==
  {pool[i][x] : i \in 1 .. Len(pool), x \in {1, 2}}
    \cup {sentK[i] : i \in 1 .. Len(sentK)}
    \cup {otq[i][x] : i \in 1 .. Len(otq), x \in {1, 2}}

\* C16: for every wire a given to RevealTo1 and each logical value v, the
\* 2-slot table sent for it decrypts, in the slot of lsb(a.k_v) under a.k_v,
\* to a block whose byte 0 is v; the fresh wire carrying the literals is in no
\* wire returned by any call and is neither sent nor offered as a key
C16_RevealTable ==
  \A j \in Reveals :
    /\ Len(Tabs(j)) = prog[j].n
    /\ \A i \in 1 .. prog[j].n :
         /\ Len(Tabs(j)[i]) = 2
         /\ \A v \in {0, 1} :
              /\ Revealed(j, i, v) # BadKey
              /\ Revealed(j, i, v).lo = v
              /\ \A k \in KeysOut : k.hi \cap Revealed(j, i, 0).hi = {}

\* a RevealTo1 has been decrypted by the evaluator to 1, and a later And gate
\* has returned a wire
C16_Witness ==
  /\ Len(prog) = 3
  /\ prog[2].op = "RevealTo1"
  /\ erevealed = <<(<<1>>)>>
  /\ prog[3].op = "And"
  /\ Len(pool) > prog[3].o

\* ------------------------------------------------------------ shares
Shares1 == {j \in 1 .. Len(prog) : prog[j].op = "ShareTo1"}

\* the keys sent with SendK during call j
KeyEnd(j) == IF j < Len(prog) THEN prog[j + 1].k0 ELSE Len(sentK)
Keys(j) == SubSeq(sentK, prog[j].k0 + 1, KeyEnd(j))

\* every key that has left the generator for the evaluator
Disclosed ==
  {sentK[i] : i \in 1 .. Len(sentK)} \cup view
    \cup {otq[i][x] : i \in 1 .. Len(otq), x \in {1, 2}}

\* the step in which a call of operation op returns
Returns(op) == Len(prog') = Len(prog) + 1 /\ prog'[Len(prog')].op = op

\* C17: a ShareTo1 call of bits wires puts exactly bits keys on the key
\* channel, the i-th being w_i.k1 when bit i of the value (least significant
\* first) is 1 and w_i.k0 otherwise; the other label of w_i is never
\* disclosed; the call offers nothing by OT and sends no table
C17_ShareTo1 ==
  /\ [](\A j \in Shares1 :
          /\ Len(Keys(j)) = prog[j].n
          /\ \A i \in 1 .. prog[j].n :
               /\ Keys(j)[i] = OutWire(j, i)[prog[j].v[i] + 1]
               /\ OutWire(j, i)[2 - prog[j].v[i]] \notin Disclosed)
  /\ [][Returns("ShareTo1") =>
          /\ otq' = otq
          /\ sentT' = sentT
          /\ Len(sentK') = Len(sentK) + prog'[Len(prog')].n
          /\ Kchan' = Kchan \o SubSeq(sentK', Len(sentK) + 1, Len(sentK'))]_vars

\* the value 5 has been shared on 3 wires and the evaluator has taken the
\* three keys
C17_Witness ==
  /\ Len(prog) = 1
  /\ prog[1].op = "ShareTo1"
  /\ prog[1].v = <<1, 0, 1>>
  /\ epc = 1
  /\ Len(epool) = 3

\* ------------------------------------------------------------ random
Randoms == {j \in 1 .. Len(prog) : prog[j].op = "Random"}

\* C18: a Random call of bits wires makes exactly one OT Send per output wire
\* and sends no key and no table; for output wire i with coin r_i the pair
\* offered is (k0, k1) when r_i = 0 and (k1, k0) when r_i = 1, so the message
\* for selector s is the label of s XOR r_i; what the evaluator holds for the
\* wire afterwards is a label of the returned wire
C18_Random ==
  /\ [][Returns("Random") =>
          LET e == prog'[Len(prog')]
              w == [i \in 1 .. e.n |-> pool'[e.o + i]]
          IN  /\ sentK' = sentK
              /\ sentT' = sentT
              /\ Kchan' = Kchan
              /\ Tchan' = Tchan
              /\ Len(pool') = Len(pool) + e.n
              /\ Len(otq') = Len(otq) + e.n
              /\ SubSeq(otq', 1, Len(otq)) = otq
              /\ \A i \in 1 .. e.n :
                   LET m == otq'[Len(otq) + i]
                   IN  /\ m = IF e.v[i] = 0 THEN <<w[i][1], w[i][2]>>
                              ELSE <<w[i][2], w[i][1]>>
                       /\ \A s \in {0, 1} : m[s + 1] = w[i][BitXor(s, e.v[i]) + 1]]_vars
  /\ [](\A j \in Randoms :
          j <= epc =>
            \A i \in 1 .. prog[j].n :
              epool[prog[j].o + i] \in {OutWire(j, i)[1], OutWire(j, i)[2]})

\* a Random call of 3 wires with coins 1, 0, 1: the evaluator has made its
\* three choices and holds the k0 label of the first wire (selector 1, coin 1)
C18_Witness ==
  /\ Len(prog) = 1
  /\ prog[1].op = "Random"
  /\ prog[1].v = <<1, 0, 1>>
  /\ epc = 1
  /\ epool[1] = pool[1][1]
  /\ epool[2] = pool[2][1]

\* ------------------------------------------------------------ input shape
MismatchPanics ==
  {"Wire mismatch in gen.And()", "Wire mismatch in gen.Or()", "Xor(): mismatch"}

\* what a call of the generator can change: the package globals, the
\* channels and what has been sent, offered and returned
Session ==
  <<key0, const0, const1, nkeys, Tchan, Kchan, Kchan2, otq, sentT, sentK, pool,
    prog>>

\* C19: And, Or and Xor called with len(a) # len(b) never return (every call
\* that returned had vectors of equal length), and the panic of such a call
\* leaves the channels and the session globals as they were: no table sent,
\* no wire made, key0 and the constants not initialised by it
C19_Mismatch ==
  /\ [](\A j \in 1 .. Len(prog) :
          prog[j].op \in {"And", "Or", "Xor"} =>
            Len(prog[j].ai) = Len(prog[j].bi))
  /\ [][(gpanic = NoPanic /\ gpanic' \in MismatchPanics) =>
          UNCHANGED Session]_vars

\* And was called with one wire against two and panicked, in a session whose
\* constants were never made and that has sent no table
C19_Witness ==
  /\ gpanic = "Wire mismatch in gen.And()"
  /\ const0 = NilWire
  /\ Len(pool) >= 2
  /\ sentT = <<>>


\* ---------------------------------------------------------------- C20
BitCountPanics == {"BT: bits > 64", "Random: bits < 1"}

\* the calls that take a bit count and have returned
Shared == {j \in 1 .. Len(prog) : prog[j].op \in {"ShareTo0", "ShareTo1", "Random"}}

\* C20: invalid bit counts fail fast: no ShareTo0, ShareTo1 or Random call
\* returns for a bit count of zero or of more than 64, genWires panics for
\* every size <= 0 with the session untouched, and a call that panics over its
\* bit count has sent nothing and has left the globals, channels, logs and
\* wires as they were.  The generator breaks it: ShareTo0(0) and ShareTo1(v, 0)
\* return an empty vector.
C20_FailFast ==
  /\ [](/\ \A j \in Shared : prog[j].n \in 1 .. MaxBits
        /\ \A size \in {-1, 0} :
             genWires(G(<<>>), size) = Panic(G(<<>>), "genWires with request <= 0"))
  /\ [][(gpanic = NoPanic /\ gpanic' \in BitCountPanics) => UNCHANGED Session]_vars

\* ---------------------------------------------------------------- C21
\* the wires the generator has created and still holds: every wire a call
\* returned (gate and Xor outputs, shares, constants) and the two constants
Created ==
  {pool[i] : i \in 1 .. Len(pool)}
    \cup (IF const0 = NilWire THEN {} ELSE {const0})
    \cup (IF const1 = NilWire THEN {} ELSE {const1})

\* the call-local wires of RevealTo1, read back from the 2-slot tables sent:
\* the plaintexts of the two slots
RevealWires ==
  {<<sentT[i][1].body, sentT[i][2].body>> :
     i \in {j \in 1 .. Len(sentT) : Len(sentT[j]) = 2}}

\* C21: the two keys of every wire the generator creates (gate outputs,
\* shares, Xor outputs, the constants, the call-local wires of RevealTo1)
\* differ in the least significant bit of byte 0, hence select different slots
C21_PointPermute ==
  \A w \in Created \cup RevealWires :
    /\ lsb(w[1]) # lsb(w[2])
    /\ slot(<<w[1]>>) # slot(<<w[2]>>)

\* a constant, an Xor output and a RevealTo1 table exist together
C21_Witness ==
  /\ const0 # NilWire
  /\ \E j \in 1 .. Len(prog) : prog[j].op = "Xor"
  /\ RevealWires # {}
  /\ gpanic = NoPanic

\* ---------------------------------------------------------------- C22
\* the mask-triple batches party i has been returned, as positions in plan
MaskReturned(i) == {k \in 1 .. Len(results[i]) : plan[k].kind = "mask"}

\* C22: mask-triple batches of any size complete: neither the server nor a
\* client aborts, and every batch maskTriple returned holds exactly numTriples
\* triples, each with a bit a and B, C of numBytesTriple bytes.  The code
\* breaks it: A and a have numTriples / 8 bytes, so for a numTriples that is
\* not a multiple of 8 GetBit reads past their end.
C22_AnySize ==
  /\ ~srvPanic
  /\ \A i \in Parties :
       /\ cli[i].pc # "panic"
       /\ \A k \in MaskReturned(i) :
            /\ Len(results[i][k]) = plan[k].n
            /\ \A j \in 1 .. plan[k].n :
                 /\ results[i][k][j].a \in {0, 1}
                 /\ Len(results[i][k][j].B) = plan[k].L
                 /\ Len(results[i][k][j].C) = plan[k].L

\* ---------------------------------------------------------------- C23
\* the message the evaluator takes next from the channel of its call
EvalExpects == <<epos.op, epos.i + 1>>

EvalReceiving ==
  /\ epos.op <= Len(cprog)
  /\ Count(cprog[epos.op], cinit.eval) > 0
  /\ ChanOf(cprog[epos.op].op) # "K2"

\* the generator is inside call k, or about to enter it
GenIn(k) == k <= Len(cprog) /\ gpos.op = k

\* C23: with channels of capacity 50, under fair scheduling of the two sides,
\* the generator returns from every call of every circuit, vectors longer
\* than the capacity and RevealTo0 calls included; it is never more than 50
\* unconsumed tables (or keys, or reply keys) ahead; and the evaluator takes
\* the messages in the order of the circuit
C23_NoDeadlock ==
  /\ [](/\ Len(chans.T) <= ChanCap
        /\ Len(chans.K) <= ChanCap
        /\ Len(chans.K2) <= ChanCap)
  /\ [](EvalReceiving /\ CanRecv(ChanOf(cprog[epos.op].op))
          => Head(chans[ChanOf(cprog[epos.op].op)]) = EvalExpects)
  /\ \A k \in 1 .. MaxCalls : GenIn(k) ~> (gpos.op > k)

\* the generator has filled the table channel inside an And longer than the
\* capacity and waits for the evaluator, with a RevealTo0 still to come
C23_Witness ==
  /\ Len(cprog) = 2
  /\ cprog[1] = [op |-> "And", n |-> ChanCap + MaxOver]
  /\ cprog[2] = [op |-> "RevealTo0", n |-> ChanCap + MaxOver]
  /\ gpos = [op |-> 1, i |-> ChanCap]
  /\ Len(chans.T) = ChanCap
  /\ ~ENABLED GenStep

\* ---------------------------------------------------------------- C24
\* C24: the secretary sends okStart for a room only when every party that is
\* a member of the room at that moment has sent a StartRequest for it, and
\* never for a room that has no members map.  The handler breaks the first
\* part: starters[room] is filled from the members once, at the first
\* StartRequest, and is never cleared, so a party that joins later is not
\* waited for.
C24_StartRule ==
  \A j \in 1 .. Len(okStarts) :
    /\ okStarts[j].members \subseteq okStarts[j].asked
    /\ okStarts[j].room \in DOMAIN members

\* ---------------------------------------------------------------- C25
\* C25: Handle.Main is started only after the party has found its own index
\* in the member list, after okStart = true was received and after exactly
\* numParties - 1 done signals, one per peer IO setup task; and session()
\* returns only after Handle.Done.  The count fails when a Members message
\* is handled between the lookup and numParties := len(st.Members): the index
\* found can lie beyond the list the session then runs with, and no peer is
\* skipped.
C25_StartOrder ==
  /\ main # "no" =>
       /\ id # -1
       /\ okd
       /\ ndone = snum - 1
       /\ ndone = setups
       /\ running = 0
  /\ spc = "returned" => main = "done"
====
